---- MODULE Spec2Model ----
(***************************************************************************)
(* A model of the rendering kernel of raytracer-rust: the recursive        *)
(* light-transport function Ray::trace, the primary-ray loop of            *)
(* compute_image with its parallel workers, Color::clamp and the           *)
(* anti-aliasing samplers.                                                 *)
(*                                                                         *)
(* Real numbers (f64 in the source) are exact rationals <<n, d>>, d > 0,   *)
(* in lowest terms.  A square root that is not rational is kept as the     *)
(* symbolic value <<"sqrt", q>>, and the f64 NaN is the value NaN.         *)
(* The geometry of a scene is abstracted by what a ray hits: every ray     *)
(* carries the object its closest intersection lies on (or NoHit), chosen  *)
(* when the ray is created, so that every scene topology is covered.       *)
(***************************************************************************)
EXTENDS Integers, Sequences, FiniteSets, TLC

\* ------------------------------------------------------------------ bounds
MaxDepth == 2
MaxLights == 2
MaxShadowRays == 2
MaxWidth == 2
MaxHeight == 2
MaxResolution == 2
MaxSamples == 6
MaxCoord == 3
MaxCalls == 2
MaxGeom == 2
RandomSteps == 2

\* -------------------------------------------------------------- rationals
RECURSIVE GCD(_, _)
GCD(a, b) == IF b = 0 THEN a ELSE GCD(b, a % b)

Abs(x) == IF x < 0 THEN -x ELSE x

\* n/d in lowest terms, d > 0
Norm(n, d) == LET g == GCD(Abs(n), d) IN <<n \div g, d \div g>>

Rat(i) == <<i, 1>>
\* f64 + and *: NaN when an operand is NaN
RAdd(p, q) == IF p[2] = 0 \/ q[2] = 0 THEN <<0, 0>> ELSE Norm(p[1] * q[2] + q[1] * p[2], p[2] * q[2])
RMul(p, q) == IF p[2] = 0 \/ q[2] = 0 THEN <<0, 0>> ELSE Norm(p[1] * q[1], p[2] * q[2])
RDivInt(p, k) == Norm(p[1], p[2] * k)
RLe(p, q) == p[1] * q[2] <= q[1] * p[2]
RLt(p, q) == p[1] * q[2] < q[1] * p[2]

\* The f64 NaN; a square root that is not rational is <<n, d, 2>>, the root of
\* n/d.
NaN == <<0, 0>>
IsNaN(v) == Len(v) = 2 /\ v[2] = 0
IsRoot(v) == Len(v) = 3

ISqrt(n) == CHOOSE r \in 0 .. n : r * r <= n /\ n < (r + 1) * (r + 1)
IsSquare(n) == ISqrt(n) * ISqrt(n) = n

\* f64 division by a count: 0.0 / 0.0 is NaN (a sum over no samples is 0)
RDivCount(p, k) == IF IsNaN(p) \/ k = 0 THEN NaN ELSE RDivInt(p, k)

\* f64::sqrt: NaN for NaN and for a negative number
RSqrt(p) ==
    IF IsNaN(p) \/ p[1] < 0 THEN NaN
    ELSE IF IsSquare(p[1]) /\ IsSquare(p[2]) THEN <<ISqrt(p[1]), ISqrt(p[2])>>
    ELSE <<p[1], p[2], 2>>

\* v <= 1 for a number v (a rational or a root); n/d and its root lie on the
\* same side of 1
LeOne(v) == v[1] <= v[2]

\* f64::min(v, 1.0): the other argument when one is NaN
MinOne(v) == IF IsNaN(v) THEN Rat(1) ELSE IF LeOne(v) THEN v ELSE Rat(1)

\* 0 <= v <= 1
InUnit(v) == ~IsNaN(v) /\ 0 <= v[1] /\ v[1] <= v[2]

\* ----------------------------------------------------------------- colours
\* Color { r, g, b }
Color(r, g, b) == [r |-> r, g |-> g, b |-> b]
Black == Color(Rat(0), Rat(0), Rat(0))

\* impl Add / AddAssign for Color
ColorAdd(a, c) == Color(RAdd(a.r, c.r), RAdd(a.g, c.g), RAdd(a.b, c.b))
\* impl Mul<Color> for Color
ColorMul(a, c) == Color(RMul(a.r, c.r), RMul(a.g, c.g), RMul(a.b, c.b))
\* impl DivAssign<f64> for Color, for a divisor k > 0
ColorDiv(a, k) == Color(RDivInt(a.r, k), RDivInt(a.g, k), RDivInt(a.b, k))

\* a clamp that leaves the colour as it is
ClampNothing(c) == c

\* Color::clamp: each channel = f64::min(channel, 1.0)
Clamp(c) == Color(MinOne(c.r), MinOne(c.g), MinOne(c.b))

\* pixel_color.r = pixel_color.r.sqrt(), and so for g and b
ColorSqrt(c) == Color(RSqrt(c.r), RSqrt(c.g), RSqrt(c.b))

\* pixel_color /= count as f64
ColorAverage(c, count) ==
    Color(RDivCount(c.r, count), RDivCount(c.g, count), RDivCount(c.b, count))

Channels(c) == {c.r, c.g, c.b}

\* ---------------------------------------------------------------- sampler
\* let step: f64 = 1.0 / resolution as f64
Step(resolution) == <<1, resolution>>

\* the grid walked column by column instead of row by row
GridPointTransposed(i, j, step, base_x, base_y) ==
    <<RAdd(Rat(base_x), RMul(Rat(j), step)), RAdd(Rat(base_y), RMul(Rat(i), step))>>

\* (base_x + i as f64 * step, base_y + j as f64 * step)
GridPoint(i, j, step, base_x, base_y) ==
    <<RAdd(Rat(base_x), RMul(Rat(i), step)), RAdd(Rat(base_y), RMul(Rat(j), step))>>

\* for i in 0..resolution { for j in 0..resolution { samples.push(..) } }
RECURSIVE GridLoop(_, _, _, _, _, _)
GridLoop(resolution, i, j, base_x, base_y, samples) ==
    IF i >= resolution THEN samples
    ELSE IF j >= resolution THEN GridLoop(resolution, i + 1, 0, base_x, base_y, samples)
    ELSE GridLoop(resolution, i, j + 1, base_x, base_y,
                  Append(samples, GridPoint(i, j, Step(resolution), base_x, base_y)))

\* fn uniform_grid_sampling(resolution, base_x, base_y) -> Vec<(f64, f64)>
UniformGridSampling(resolution, base_x, base_y) ==
    GridLoop(resolution, 0, 0, base_x, base_y, <<>>)

\* SuperSampling::sample(x, y), for SuperSampling::Uniform(resolution)
SsaaSample(resolution, x, y) == UniformGridSampling(resolution, x, y)

\* The pair of values rng.gen_range(0.0..step) returns for one sample, each as
\* a fraction of step: a point of [0, 1).
JitterDraws == {<<Rat(0), Rat(0)>>, <<<<3, 4>>, <<1, 4>>>>, <<<<1, 4>>, <<3, 4>>>>}

\* the offset drawn from 0.0..1.0 instead of 0.0..step
JitterPointUnscaled(i, j, step, base_x, base_y, draw) ==
    <<RAdd(RAdd(Rat(base_x), RMul(Rat(i), step)), draw[1]),
      RAdd(RAdd(Rat(base_y), RMul(Rat(j), step)), draw[2])>>

\* (base_x + (i as f64 * step) + rng.gen_range(0.0..step),
\*  base_y + (j as f64 * step) + rng.gen_range(0.0..step))
JitterPoint(i, j, step, base_x, base_y, draw) ==
    <<RAdd(RAdd(Rat(base_x), RMul(Rat(i), step)), RMul(draw[1], step)),
      RAdd(RAdd(Rat(base_y), RMul(Rat(j), step)), RMul(draw[2], step))>>

\* for i in 0..resolution { for j in 0..resolution { samples.push(..) } },
\* draws[k] being what the generator gives for the k-th push
RECURSIVE JitterLoop(_, _, _, _, _, _, _)
JitterLoop(resolution, i, j, base_x, base_y, draws, acc) ==
    IF i >= resolution THEN acc
    ELSE IF j >= resolution THEN JitterLoop(resolution, i + 1, 0, base_x, base_y, draws, acc)
    ELSE JitterLoop(resolution, i, j + 1, base_x, base_y, draws,
                    Append(acc, JitterPoint(i, j, Step(resolution), base_x, base_y,
                                            draws[Len(acc) + 1])))

\* fn jitter_sampling(resolution, base_x, base_y) -> Vec<(f64, f64)>
JitterSampling(resolution, base_x, base_y, draws) ==
    JitterLoop(resolution, 0, 0, base_x, base_y, draws, <<>>)

\* ------------------------------------------------- SuperSampling::from_str
\* A &str is the sequence of its characters.
JitterStr == <<"j", "i", "t", "t", "e", "r">>
UniformStr == <<"u", "n", "i", "f", "o", "r", "m">>
InvalidStr == <<"i", "n", "v", "a", "l", "i", "d">>
Digits == <<"0", "1", "2", "3", "4", "5", "6", "7", "8", "9">>
IsDigit(c) == \E k \in 1 .. 10 : Digits[k] = c
DigitValue(c) == (CHOOSE k \in 1 .. 10 : Digits[k] = c) - 1

\* s.split(":").collect::<Vec<_>>()
RECURSIVE SplitLoop(_, _, _, _)
SplitLoop(s, k, piece, acc) ==
    IF k > Len(s) THEN Append(acc, piece)
    ELSE IF s[k] = ":" THEN SplitLoop(s, k + 1, <<>>, Append(acc, piece))
    ELSE SplitLoop(s, k + 1, Append(piece, s[k]), acc)
Split(s) == SplitLoop(s, 1, <<>>, <<>>)

\* the digits of a usize, most significant first
RECURSIVE ParseDigits(_, _, _)
ParseDigits(s, k, acc) ==
    IF k > Len(s) THEN [ok |-> TRUE, value |-> acc]
    ELSE IF ~IsDigit(s[k]) THEN [ok |-> FALSE]
    ELSE ParseDigits(s, k + 1, acc * 10 + DigitValue(s[k]))

\* a parse that takes the empty string for 0
ParseUsizeEmptyIsZero(s) ==
    IF s # <<>> /\ s[1] = "+" THEN ParseDigits(s, 2, 0) ELSE ParseDigits(s, 1, 0)

\* str::parse::<usize>(): Err for the empty string and for a lone sign, a
\* leading "+" is skipped, every other character has to be a digit
ParseUsize(s) ==
    IF s = <<>> THEN [ok |-> FALSE]
    ELSE IF s[1] = "+" \/ s[1] = "-"
         THEN IF Len(s) = 1 THEN [ok |-> FALSE]
              ELSE IF s[1] = "+" THEN ParseDigits(s, 2, 0)
              ELSE ParseDigits(s, 1, 0)
    ELSE ParseDigits(s, 1, 0)

Uniform(n) == [variant |-> "Uniform", resolution |-> n]
Jitter(n) == [variant |-> "Jitter", resolution |-> n]
Ok(v) == [ok |-> TRUE, value |-> v]
\* Err(SSAADecodeError::new(error))
Err(error) == [ok |-> FALSE, error |-> error]

\* fn from_str(s: &str) -> Result<SuperSampling, SSAADecodeError>
FromStr(s) ==
    LET method_args == Split(s)
    IN IF method_args[1] = JitterStr
       THEN IF Len(method_args) < 2
            THEN Err("no arguments supplied, need resolution for jitter")
            ELSE LET res == ParseUsize(method_args[2])
                 IN IF res.ok THEN Ok(Jitter(res.value))
                    ELSE Err("resolution has to be an integer")
       ELSE IF method_args[1] = UniformStr
       THEN IF Len(method_args) < 2
            THEN Err("no arguments supplied, need resolution for uniform")
            ELSE LET res == ParseUsize(method_args[2])
                 IN IF res.ok THEN Ok(Jitter(res.value))
                    ELSE Err("resolution has to be an integer")
       ELSE Err("unknown method")

\* The strings from_str is applied to: a method, then possibly ":" and an
\* argument, then possibly ":" and more.
MethodStrs ==
    {JitterStr, UniformStr, InvalidStr, <<>>, <<"J", "i", "t", "t", "e", "r">>,
     <<"j", "i", "t", "t", "e">>, <<"u", "n", "i", "f", "o", "r", "m", " ">>}
ArgumentStrs ==
    {<<>>, <<"0">>, <<"2">>, <<"1", "2">>, <<"0", "7">>, <<"+", "2">>, <<"-", "1">>,
     <<"+">>, <<"2", "x">>, <<" ", "2">>, <<"2", ".", "0">>, InvalidStr}
RestStrs == {<<"3">>, <<>>, <<"x">>}
SsaaStrs ==
    MethodStrs
    \cup {m \o <<":">> \o a : m \in MethodStrs, a \in ArgumentStrs}
    \cup {m \o <<":">> \o a \o <<":">> \o r : m \in MethodStrs, a \in ArgumentStrs, r \in RestStrs}

\* ---------------------------------------------------------- f64 arithmetic
\* An f64 of the geometry code is <<n, d>>: the rational n/d in lowest terms
\* with d > 0; <<0, 1>> is +0.0 and <<0, -1>> is -0.0; <<1, 0>> and <<-1, 0>>
\* are the infinities and <<0, 0>> is NaN.  Rounding and overflow are not
\* modelled.
PosZero == <<0, 1>>
NegZero == <<0, -1>>
FIsNaN(v) == v[1] = 0 /\ v[2] = 0
FIsInf(v) == v[1] # 0 /\ v[2] = 0
FIsZero(v) == v[1] = 0 /\ v[2] # 0
FSign(v) == IF v[1] < 0 \/ v[2] < 0 THEN -1 ELSE 1
FZero(sign) == IF sign < 0 THEN NegZero ELSE PosZero
FInf(sign) == <<sign, 0>>

\* -v
FNeg(v) ==
    IF FIsNaN(v) THEN v ELSE IF FIsZero(v) THEN <<0, -v[2]>> ELSE <<-v[1], v[2]>>

\* p * q
FMul(p, q) ==
    IF FIsNaN(p) \/ FIsNaN(q) THEN NaN
    ELSE IF (FIsInf(p) /\ FIsZero(q)) \/ (FIsZero(p) /\ FIsInf(q)) THEN NaN
    ELSE IF FIsInf(p) \/ FIsInf(q) THEN FInf(FSign(p) * FSign(q))
    ELSE IF FIsZero(p) \/ FIsZero(q) THEN FZero(FSign(p) * FSign(q))
    ELSE Norm(p[1] * q[1], p[2] * q[2])

\* p + q: a sum that cancels is +0.0, and so is (+0.0) + (-0.0)
FAdd(p, q) ==
    IF FIsNaN(p) \/ FIsNaN(q) THEN NaN
    ELSE IF FIsInf(p) /\ FIsInf(q) THEN (IF p = q THEN p ELSE NaN)
    ELSE IF FIsInf(p) THEN p
    ELSE IF FIsInf(q) THEN q
    ELSE IF FIsZero(p) /\ FIsZero(q) THEN (IF p = NegZero /\ q = NegZero THEN NegZero ELSE PosZero)
    ELSE IF FIsZero(p) THEN q
    ELSE IF FIsZero(q) THEN p
    ELSE IF p[1] * q[2] + q[1] * p[2] = 0 THEN PosZero
    ELSE Norm(p[1] * q[2] + q[1] * p[2], p[2] * q[2])

\* p - q
FSub(p, q) == FAdd(p, FNeg(q))

\* p / q: x / 0.0 is an infinity of the signs' product, 0.0 / 0.0 is NaN
FDiv(p, q) ==
    IF FIsNaN(p) \/ FIsNaN(q) THEN NaN
    ELSE IF (FIsInf(p) /\ FIsInf(q)) \/ (FIsZero(p) /\ FIsZero(q)) THEN NaN
    ELSE IF FIsInf(p) \/ FIsZero(q) THEN FInf(FSign(p) * FSign(q))
    ELSE IF FIsInf(q) \/ FIsZero(p) THEN FZero(FSign(p) * FSign(q))
    ELSE Norm(p[1] * q[2] * FSign(q), p[2] * Abs(q[1]))

\* p < q: false when an operand is NaN; the two zeros are equal
FLt(p, q) ==
    IF FIsNaN(p) \/ FIsNaN(q) THEN FALSE
    ELSE IF FIsInf(p) \/ FIsInf(q)
         THEN p # q /\ (p = FInf(-1) \/ q = FInf(1))
    ELSE LET pd == Abs(p[2])
             qd == Abs(q[2])
         IN IF p[1] \div pd # q[1] \div qd THEN p[1] \div pd < q[1] \div qd
            ELSE (p[1] % pd) * qd < (q[1] % qd) * pd
FGt(p, q) == FLt(q, p)
\* p <= q and p >= q
FLe(p, q) == ~FIsNaN(p) /\ ~FIsNaN(q) /\ ~FLt(q, p)
FGe(p, q) == FLe(q, p)
\* p == q and p != q
FEq(p, q) == FLe(p, q) /\ FLe(q, p)
FNe(p, q) == ~FEq(p, q)

\* f64::abs
FAbs(v) == IF FIsNaN(v) THEN v ELSE IF FSign(v) < 0 THEN FNeg(v) ELSE v

\* f64::sqrt, for a number whose root is rational
FSqrt(v) ==
    IF FIsNaN(v) THEN NaN
    ELSE IF FIsZero(v) THEN v
    ELSE IF v[1] < 0 THEN NaN
    ELSE IF FIsInf(v) THEN v
    ELSE <<ISqrt(v[1]), ISqrt(v[2])>>
HasRationalRoot(v) ==
    IF v[1] <= 0 \/ v[2] = 0 THEN TRUE ELSE IsSquare(v[1]) /\ IsSquare(v[2])

\* f64::min and f64::max: the other operand when one is NaN
FMin(p, q) == IF FIsNaN(p) THEN q ELSE IF FIsNaN(q) THEN p ELSE IF FLt(q, p) THEN q ELSE p
FMax(p, q) == IF FIsNaN(p) THEN q ELSE IF FIsNaN(q) THEN p ELSE IF FLt(p, q) THEN q ELSE p

\* ----------------------------------------------------------------- Vector3
\* Vector3::new(x, y, z), and the vector of three integers
Vector3(x, y, z) == <<x, y, z>>
V3(x, y, z) == <<Rat(x), Rat(y), Rat(z)>>
\* Vector3::dot and Vector3::sqr_len
Dot(a, b) == FAdd(FAdd(FMul(a[1], b[1]), FMul(a[2], b[2])), FMul(a[3], b[3]))
SqrLen(a) == Dot(a, a)
\* Vector3::cross
Cross(a, b) ==
    Vector3(FSub(FMul(a[2], b[3]), FMul(a[3], b[2])),
            FSub(FMul(a[3], b[1]), FMul(a[1], b[3])),
            FSub(FMul(a[1], b[2]), FMul(a[2], b[1])))
\* impl Add, Sub, Mul<f64>, Div<f64> for Vector3
VAdd(a, b) == Vector3(FAdd(a[1], b[1]), FAdd(a[2], b[2]), FAdd(a[3], b[3]))
VSub(a, b) == Vector3(FSub(a[1], b[1]), FSub(a[2], b[2]), FSub(a[3], b[3]))
VMul(a, k) == Vector3(FMul(a[1], k), FMul(a[2], k), FMul(a[3], k))
VDiv(a, k) == Vector3(FDiv(a[1], k), FDiv(a[2], k), FDiv(a[3], k))
\* Vector3::min and Vector3::max
VMin(a, b) == Vector3(FMin(a[1], b[1]), FMin(a[2], b[2]), FMin(a[3], b[3]))
VMax(a, b) == Vector3(FMax(a[1], b[1]), FMax(a[2], b[2]), FMax(a[3], b[3]))
\* Vector3::normalized: self / len when len != 0.0, otherwise self.  The
\* length is kept as its square: the result is dir / sqrt(sqr_len).
Normalized(a) ==
    IF FNe(SqrLen(a), PosZero) THEN [dir |-> a, sqr_len |-> SqrLen(a)]
    ELSE [dir |-> a, sqr_len |-> Rat(1)]

\* Ray { origin, direction } and Ray::at_timestep
MkRay(origin, direction) == [origin |-> origin, direction |-> direction]
AtTimestep(r, t) == VAdd(r.origin, VMul(r.direction, t))

\* Option<IntersectionInfo>
None == [some |-> FALSE]
Some(point, normal, material, t) ==
    [some |-> TRUE, point |-> point, normal |-> normal, material |-> material, t |-> t]

\* ------------------------------------------------- Sphere and Plane intersect
\* 1e-5 and 1e-6
Epsilon == <<1, 100000>>
ParallelEpsilon == <<1, 1000000>>
\* f64::MAX: above every finite number of the model, below +infinity
F64Max == <<1, 0, 0>>
\* t < intersection_t
LtIntersectionT(t, intersection_t) ==
    IF intersection_t = F64Max THEN ~FIsNaN(t) /\ t # FInf(1)
    ELSE FLt(t, intersection_t)

Sphere(center, radius, material) ==
    [type |-> "sphere", center |-> center, radius |-> radius, material |-> material]
Plane(center, normal, material) ==
    [type |-> "plane", center |-> center, normal |-> normal, material |-> material]

\* a, b, c and d = b * b - 4.0 * a * c of Sphere::intersect
QuadA(self, r) == SqrLen(r.direction)
QuadB(self, r) == FMul(Rat(2), Dot(r.direction, VSub(r.origin, self.center)))
QuadC(self, r) == FSub(SqrLen(VSub(r.origin, self.center)), FMul(self.radius, self.radius))
Discriminant(self, r) ==
    FSub(FMul(QuadB(self, r), QuadB(self, r)),
         FMul(FMul(Rat(4), QuadA(self, r)), QuadC(self, r)))

\* a root is taken whatever its sign
AcceptRootAnySign(t, intersection_t) == LtIntersectionT(t, intersection_t)

\* t > 1e-5 && t < intersection_t
AcceptRoot(t, intersection_t) == FGt(t, Epsilon) /\ LtIntersectionT(t, intersection_t)

\* impl Intersectable for Sphere
SphereIntersect(self, r) ==
    LET a == QuadA(self, r)
        b == QuadB(self, r)
        d == Discriminant(self, r)
    IN IF FGe(d, PosZero)
       THEN LET root == FSqrt(d)
                t1 == FDiv(FSub(FNeg(b), root), FMul(Rat(2), a))
                t2 == FDiv(FAdd(FNeg(b), root), FMul(Rat(2), a))
                first == IF AcceptRoot(t1, F64Max) THEN t1 ELSE F64Max
                intersection_t == IF AcceptRoot(t2, first) THEN t2 ELSE first
            IN IF intersection_t = F64Max THEN None
               ELSE LET intersection_point == AtTimestep(r, intersection_t)
                    IN Some(intersection_point,
                            VDiv(VSub(intersection_point, self.center), self.radius),
                            self.material, intersection_t)
       ELSE None

\* the test without f64::abs
NearParallelSigned(dot_nd) == FLt(dot_nd, ParallelEpsilon)

\* f64::abs(dot_nd) < 1e-6
NearParallel(dot_nd) == FLt(FAbs(dot_nd), ParallelEpsilon)

\* impl Intersectable for Plane
PlaneIntersect(self, r) ==
    LET dot_nd == Dot(self.normal, r.direction)
    IN IF NearParallel(dot_nd) THEN None
       ELSE LET intersection_t == FDiv(Dot(VSub(self.center, r.origin), self.normal), dot_nd)
            IN IF FLt(intersection_t, Epsilon) THEN None
               ELSE Some(AtTimestep(r, intersection_t), self.normal, self.material,
                         intersection_t)

\* The directions of the rays Ray::new makes: unit vectors, and the zero
\* vector (which normalized() leaves as it is).
RayDirections ==
    {V3(1, 0, 0), V3(-1, 0, 0), V3(0, 1, 0), V3(0, 0, -1), V3(0, 0, 0),
     Vector3(<<3, 5>>, <<4, 5>>, Rat(0))}
RayOrigins == {V3(0, 0, 0), V3(1, 0, 1)}
Rays == {MkRay(o, d) : o \in RayOrigins, d \in RayDirections}

\* ----------------------------------------------------------- AABB::intersect
AABB(min, max) == [type |-> "aabb", min |-> min, max |-> max]

\* quadrant[i] and candidate_plane[i] after the first loop (i counted from 1)
Quadrant(self, r, i) ==
    IF FLt(r.origin[i], self.min[i]) THEN "LEFT"
    ELSE IF FGt(r.origin[i], self.max[i]) THEN "RIGHT"
    ELSE "MIDDLE"
CandidatePlane(self, r, i) ==
    IF Quadrant(self, r, i) = "LEFT" THEN self.min[i]
    ELSE IF Quadrant(self, r, i) = "RIGHT" THEN self.max[i]
    ELSE Rat(-1)
Inside(self, r) == \A i \in 1 .. 3 : Quadrant(self, r, i) = "MIDDLE"

\* max_t[i] after the second loop
MaxT(self, r, i) ==
    IF Quadrant(self, r, i) # "MIDDLE" /\ FNe(r.direction[i], PosZero)
    THEN FDiv(FSub(CandidatePlane(self, r, i), r.origin[i]), r.direction[i])
    ELSE Rat(-1)

\* which_plane after the third loop
WhichPlane(self, r) ==
    LET second == IF FLt(MaxT(self, r, 1), MaxT(self, r, 2)) THEN 2 ELSE 1
    IN IF FLt(MaxT(self, r, second), MaxT(self, r, 3)) THEN 3 ELSE second

\* coords[i] in the last loop
Coord(self, r, i) ==
    FAdd(r.origin[i], FMul(MaxT(self, r, WhichPlane(self, r)), r.direction[i]))

\* fn intersect(&self, ray: &Ray) -> bool
AabbIntersect(self, r) ==
    IF Inside(self, r) THEN TRUE
    ELSE \A i \in 1 .. 3 :
            \/ i = WhichPlane(self, r)
            \/ ~(FLt(Coord(self, r, i), self.min[i]) \/ FGt(Coord(self, r, i), self.max[i]))

\* The boxes tried: grid boxes, flat in no, one or two directions.
Boxes ==
    {AABB(V3(x, y, -1), V3(x + w, y + h, 1)) :
        x \in -MaxGeom .. MaxGeom, y \in -MaxGeom .. MaxGeom, w \in {0, 1}, h \in {0, 2}}

\* ----------------------------------------------------------- Mesh::intersect
\* fn calculate_determinant(v1, v2, v3) -> f64
CalculateDeterminant(v1, v2, v3) ==
    FSub(FAdd(FAdd(FMul(FMul(v1[1], v2[2]), v3[3]), FMul(FMul(v2[1], v3[2]), v1[3])),
              FMul(FMul(v3[1], v1[2]), v2[3])),
         FAdd(FAdd(FMul(FMul(v3[1], v2[2]), v1[3]), FMul(FMul(v2[1], v1[2]), v3[3])),
              FMul(FMul(v1[1], v3[2]), v2[3])))

\* Triangle::new(vertex_idx, material_idx): no uv_idx, so that a hit has no u, v
Triangle(vertex_idx, material_idx) ==
    [vertex_idx |-> vertex_idx, material_idx |-> material_idx]
\* Mesh { triangles, materials, vertex_positions, aabb }, aabb None or an AABB
Mesh(triangles, materials, vertex_positions, aabb) ==
    [type |-> "mesh", triangles |-> triangles, materials |-> materials,
     vertex_positions |-> vertex_positions, aabb |-> aabb]

\* Mesh::compute_aabb, for a mesh with a vertex: the coordinate-wise minimum
\* and maximum of the vertex positions
RECURSIVE FoldVertices(_, _, _, _)
FoldVertices(vertex_positions, k, bb_min, bb_max) ==
    IF k > Len(vertex_positions) THEN AABB(bb_min, bb_max)
    ELSE FoldVertices(vertex_positions, k + 1, VMin(bb_min, vertex_positions[k]),
                      VMax(bb_max, vertex_positions[k]))
ComputeAabb(self) ==
    [self EXCEPT !.aabb =
        FoldVertices(self.vertex_positions, 1, self.vertex_positions[1],
                     self.vertex_positions[1])]

\* the corners a, b, c of triangle k of the mesh (k counted from 1)
Corner(self, k, n) == self.vertex_positions[self.triangles[k].vertex_idx[n] + 1]

\* a = det_m_a / det_m, b = det_m_b / det_m and t = -(det_m_t / det_m) for
\* triangle k
Solve(self, r, k) ==
    LET a == Corner(self, k, 1)
        ab == VSub(Corner(self, k, 2), a)
        ac == VSub(Corner(self, k, 3), a)
        res == VSub(r.origin, a)
        det_m == CalculateDeterminant(r.direction, ab, ac)
        det_m_t == CalculateDeterminant(res, ab, ac)
        det_m_a == CalculateDeterminant(r.direction, res, ac)
        det_m_b == CalculateDeterminant(r.direction, ab, res)
    IN [det_m |-> det_m, a |-> FDiv(det_m_a, det_m), b |-> FDiv(det_m_b, det_m),
        t |-> FNeg(FDiv(det_m_t, det_m)), normal |-> Normalized(Cross(ab, ac))]

\* a < 0.0 || b < 0.0 || a + b > 1.0 || t < 0.0
Skipped(s) ==
    \/ FLt(s.a, PosZero)
    \/ FLt(s.b, PosZero)
    \/ FGt(FAdd(s.a, s.b), Rat(1))
    \/ FLt(s.t, PosZero)

\* for triangle in &self.triangles { .. }, from triangle k on
RECURSIVE TriangleLoop(_, _, _, _)
TriangleLoop(self, r, k, result) ==
    IF k > Len(self.triangles) THEN result
    ELSE LET s == Solve(self, r, k)
         IN IF Skipped(s) THEN TriangleLoop(self, r, k + 1, result)
            ELSE IF ~result.some \/ FGt(result.t, s.t)
            THEN TriangleLoop(self, r, k + 1,
                     Some(AtTimestep(r, s.t), s.normal,
                          self.materials[self.triangles[k].material_idx + 1], s.t))
            ELSE TriangleLoop(self, r, k + 1, result)

\* impl Intersectable for Mesh
MeshIntersect(self, r) ==
    IF self.aabb # None /\ ~AabbIntersect(self.aabb, r) THEN None
    ELSE TriangleLoop(self, r, 1, None)

\* The triangles tried, as their three corners: one across the x axis at
\* each grid point, one in the plane z = 0, one with its corners on a line,
\* one with its corners in one point.
CornerTriples ==
    {<<V3(x, -1, -1), V3(x, 1, 0), V3(x, -1, 1)>> : x \in -MaxGeom .. MaxGeom}
    \cup {<<V3(1, -1, 0), V3(1, 1, 0), V3(2, 0, 0)>>,
          <<V3(2, 1, -1), V3(2, 1, 0), V3(2, 1, 1)>>,
          <<V3(1, 0, 0), V3(1, 0, 0), V3(1, 0, 0)>>}
\* the mesh of the triangles of a sequence of corner triples
MeshOf(triples) ==
    Mesh([k \in 1 .. Len(triples) |-> Triangle(<<3 * k - 3, 3 * k - 2, 3 * k - 1>>, (k - 1) % 2)],
         <<"lambertian", "metal">>,
         [n \in 1 .. 3 * Len(triples) |-> triples[((n - 1) \div 3) + 1][((n - 1) % 3) + 1]],
         None)
Meshes ==
    {MeshOf(<<>>)}
    \cup {MeshOf(<<p>>) : p \in CornerTriples}
    \cup {MeshOf(<<p, q>>) : p \in CornerTriples, q \in CornerTriples}

\* ------------------------------------------ Scene::get_closest_interesection
\* impl Intersectable for Object: the intersect of the variant
ObjectIntersect(o, r) ==
    CASE o.type = "sphere" -> SphereIntersect(o, r)
      [] o.type = "plane" -> PlaneIntersect(o, r)
      [] o.type = "mesh" -> MeshIntersect(o, r)

\* match info { Some(i) => if i.t > intersection_info.t { Some(intersection_info) },
\* None => Some(intersection_info) } for the intersection an object reports
Closer(info, intersection_info) ==
    IF ~intersection_info.some THEN info
    ELSE IF ~info.some THEN intersection_info
    ELSE IF FGt(info.t, intersection_info.t) THEN intersection_info
    ELSE info

\* for o in &self.objects { .. }, from object k on, info the closest so far
RECURSIVE ClosestLoop(_, _, _, _)
ClosestLoop(objects, r, k, info) ==
    IF k > Len(objects) THEN info
    ELSE ClosestLoop(objects, r, k + 1, Closer(info, ObjectIntersect(objects[k], r)))

GetClosestIntersection(objects, r) == ClosestLoop(objects, r, 1, None)

\* The objects of the scenes tried: unit spheres along the x axis, planes
\* across it, a triangle across it and a triangle in the plane z = 0.
SceneObjectPool ==
    {Sphere(V3(x, 0, 0), Rat(1), "lamp") : x \in -MaxGeom .. MaxGeom}
    \cup {Plane(V3(x, 0, 0), V3(-1, 0, 0), "lambertian") : x \in {1, MaxGeom}}
    \cup {MeshOf(<<<<V3(MaxGeom, -1, -1), V3(MaxGeom, 1, 0), V3(MaxGeom, -1, 1)>>>>),
          MeshOf(<<<<V3(1, -1, 0), V3(1, 1, 0), V3(2, 0, 0)>>>>)}
MaxObjects == 2
ObjectLists ==
    UNION {[1 .. n -> SceneObjectPool] : n \in 0 .. MaxObjects}

\* ------------------------------------------------------------------ materials
\* Vector3::len, for a vector whose length is rational
VLen(a) == FSqrt(SqrLen(a))
\* the vector that Vector3::normalized returns, for a rational length
Unit(a) == VDiv(Normalized(a).dir, FSqrt(Normalized(a).sqr_len))
\* impl Neg for Vector3
VNeg(a) == Vector3(FNeg(a[1]), FNeg(a[2]), FNeg(a[3]))
\* Vector3::reflect: *self - *n * (2.0 * self.dot(n))
Reflect(a, n) == VSub(a, VMul(n, FMul(Rat(2), Dot(a, n))))
\* Vector3::near_zero
NearZero(a) ==
    \A i \in 1 .. 3 : FLt(FAbs(a[i]), <<1, 100000000>>)
\* Ray::new(origin, direction): the direction normalized
RayNew(origin, direction) == MkRay(origin, Unit(direction))

\* the material structs
LambertianMaterial(albedo) == [type |-> "Lambertian", albedo |-> albedo]
EmissiveMaterial(color) == [type |-> "Emissive", color |-> color]
DielectricsMaterial(tint, refraction_index) ==
    [type |-> "Dieletrics", tint |-> tint, refraction_index |-> refraction_index]
MetalMaterial(albedo, fuzziness) ==
    [type |-> "Metal", albedo |-> albedo, fuzziness |-> fuzziness]

\* Option<(Option<Ray>, Color)>: Some((Some(ray), color)), Some((None, color))
\* and None
SomeScattered(scattered, color) ==
    [some |-> TRUE, ray |-> [some |-> TRUE, ray |-> scattered], color |-> color]
SomeColor(color) == [some |-> TRUE, ray |-> None, color |-> color]

\* impl Scatter for LambertianMaterial, unit the random_unit_vector() drawn
LambertianScatter(self, r, info, unit) ==
    LET scatter_direction == VAdd(info.normal, unit)
    IN SomeScattered(RayNew(info.point,
                            IF NearZero(scatter_direction) THEN info.normal
                            ELSE scatter_direction),
                     self.albedo)

\* impl Scatter for EmissiveMaterial
EmissiveScatterBlack(self, r, info) == SomeColor(Black)
EmissiveScatter(self, r, info) == SomeColor(self.color)

\* DielectricsMaterial::refract
Refract(direction, normal, refraction_ratio) ==
    LET cos_theta == FMin(Dot(normal, VNeg(direction)), Rat(1))
        r_out_perp == VMul(VAdd(direction, VMul(normal, cos_theta)), refraction_ratio)
        r_out_parallel ==
            VMul(normal, FNeg(FSqrt(FAbs(FSub(Rat(1), SqrLen(r_out_perp))))))
    IN VAdd(r_out_perp, r_out_parallel)

\* f64::powi for a small exponent
RECURSIVE Powi(_, _)
Powi(x, n) == IF n = 0 THEN Rat(1) ELSE FMul(Powi(x, n - 1), x)

\* DielectricsMaterial::reflectance
Reflectance(cosine, ref_idx) ==
    LET r0 == Powi(FDiv(FSub(Rat(1), ref_idx), FAdd(Rat(1), ref_idx)), 2)
    IN FAdd(r0, FMul(FSub(Rat(1), r0), Powi(FSub(Rat(1), cosine), 5)))

\* front_face, refraction_ratio, normal, cos_theta and sin_theta of
\* DielectricsMaterial::scatter
FrontFace(r, info) == FLe(Dot(info.normal, r.direction), PosZero)
RefractionRatio(self, r, info) ==
    IF FrontFace(r, info) THEN FDiv(Rat(1), self.refraction_index)
    ELSE self.refraction_index
FaceNormal(r, info) == IF FrontFace(r, info) THEN info.normal ELSE VNeg(info.normal)
CosTheta(r, info) == FMin(Dot(VNeg(r.direction), FaceNormal(r, info)), Rat(1))
SinThetaSquared(r, info) == FSub(Rat(1), FMul(CosTheta(r, info), CosTheta(r, info)))
SinTheta(r, info) == FSqrt(SinThetaSquared(r, info))
CannotRefract(self, r, info) ==
    FGt(FMul(RefractionRatio(self, r, info), SinTheta(r, info)), Rat(1))

\* cannot_refract || reflectance(cos_theta, refraction_ratio) > rng.gen::<f64>()
ReflectsOnlyTotal(self, r, info, gen) == CannotRefract(self, r, info)
Reflects(self, r, info, gen) ==
    \/ CannotRefract(self, r, info)
    \/ FGt(Reflectance(CosTheta(r, info), RefractionRatio(self, r, info)), gen)

\* impl Scatter for DielectricsMaterial, gen the rng.gen::<f64>() drawn
DielectricsScatter(self, r, info, gen) ==
    SomeScattered(
        RayNew(info.point,
               IF Reflects(self, r, info, gen)
               THEN Reflect(r.direction, FaceNormal(r, info))
               ELSE Refract(r.direction, FaceNormal(r, info),
                            RefractionRatio(self, r, info))),
        self.tint)

\* the Ray that MetalMaterial::scatter builds, v the random_in_unit_sphere()
\* drawn
MetalScattered(self, r, info, v) ==
    RayNew(info.point,
           VAdd(Reflect(Unit(r.direction), info.normal), VMul(v, self.fuzziness)))

\* scattered.direction.dot(&intersection.normal) > 0.0
LeavesSurfaceOrGrazes(scattered, info) ==
    FGe(Dot(scattered.direction, info.normal), PosZero)
LeavesSurface(scattered, info) ==
    FGt(Dot(scattered.direction, info.normal), PosZero)

\* impl Scatter for MetalMaterial
MetalScatter(self, r, info, v) ==
    IF LeavesSurface(MetalScattered(self, r, info, v), info)
    THEN SomeScattered(MetalScattered(self, r, info, v), self.albedo)
    ELSE None

\* impl Scatter for Material: the scatter of the variant.  The draws are
\* draw.unit = random_unit_vector(), draw.v = random_in_unit_sphere() and
\* draw.gen = rng.gen::<f64>()
MaterialScatter(self, r, info, draw) ==
    IF self.type = "Lambertian" THEN LambertianScatter(self, r, info, draw.unit)
    ELSE IF self.type = "Metal" THEN MetalScatter(self, r, info, draw.v)
    ELSE IF self.type = "Dieletrics" THEN DielectricsScatter(self, r, info, draw.gen)
    ELSE EmissiveScatter(self, r, info)

\* ----------------------------------------------------------- Scene::precompute
\* struct PointLight and struct AreaLight, the variants of enum LightInfo
PointLight(position) == [type |-> "Point", position |-> position]
AreaLight(corner, u, v, grid_resolution, deterministic) ==
    [type |-> "Area", corner |-> corner, u |-> u, v |-> v,
     grid_resolution |-> grid_resolution, deterministic |-> deterministic]
\* struct Light { samples, color, light_info }; samples is skipped by the
\* deserializer and starts empty
Light(samples, color, light_info) ==
    [samples |-> samples, color |-> color, light_info |-> light_info]

\* sample n (counted from 1) of the area light: the loops run i outside and
\* j inside; fu and fv are 0.5 and 0.5, or the two rng.gen_range(0.0..1.0)
AreaSample(area_light, n, fu, fv) ==
    VAdd(VAdd(area_light.corner,
              VMul(VDiv(area_light.u, Rat(area_light.grid_resolution)),
                   FAdd(Rat((n - 1) \div area_light.grid_resolution), fu))),
         VMul(VDiv(area_light.v, Rat(area_light.grid_resolution)),
              FAdd(Rat((n - 1) % area_light.grid_resolution), fv)))
\* LightInfo::sample, gen the sequence of values the rng hands out
LightInfoSample(self, gen) ==
    IF self.type = "Point" THEN <<self.position>>
    ELSE [n \in 1 .. self.grid_resolution * self.grid_resolution |->
             IF self.deterministic
             THEN AreaSample(self, n, <<1, 2>>, <<1, 2>>)
             ELSE AreaSample(self, n, gen[2 * n - 1], gen[2 * n])]
\* Light::compute_samples
ComputeSamples(self, gen) == [self EXCEPT !.samples = LightInfoSample(self.light_info, gen)]

\* for l in &mut self.lights { l.compute_samples(); }, gens[k] the draws of
\* light k
PrecomputeLights(scene_lights, gens) ==
    [k \in 1 .. Len(scene_lights) |-> ComputeSamples(scene_lights[k], gens[k])]
\* for m in &mut self.objects { if let Object::Mesh(mesh) = m { mesh.compute_aabb(); } }
PrecomputeObjectsNoAabb(scene_objs) == scene_objs
PrecomputeObjects(scene_objs) ==
    [k \in 1 .. Len(scene_objs) |->
        IF scene_objs[k].type = "mesh" THEN ComputeAabb(scene_objs[k]) ELSE scene_objs[k]]

\* The values of rng.gen_range(0.0..1.0) tried: the range excludes 1.0
GenRange == {<<0, 1>>, <<1, 2>>}
\* the draws that LightInfo::sample makes for one light: two for each sample of
\* an area light that is not deterministic, none otherwise
GensOf(self) ==
    IF self.light_info.type = "Area" /\ ~self.light_info.deterministic
    THEN [1 .. 2 * self.light_info.grid_resolution * self.light_info.grid_resolution -> GenRange]
    ELSE {<<>>}
\* the draws of one run of Scene::precompute, light by light
LightGens(scene_lights) ==
    {gens \in [1 .. Len(scene_lights) -> UNION {GensOf(scene_lights[k]) : k \in 1 .. Len(scene_lights)}] :
        \A k \in 1 .. Len(scene_lights) : gens[k] \in GensOf(scene_lights[k])}
\* struct Scene { ambient_light, lights, objects }, without the ambient light
Scene(scene_lights, scene_objs) == [lights |-> scene_lights, objects |-> scene_objs]

\* ------------------------------------------------------------------- scene
\* The objects of the scene, one of each material kind; NoHit is the None of
\* get_closest_interesection.
NoHit == "nohit"
Objects == {"lambertian", "metal", "glass", "lamp"}
Targets == Objects \cup {NoHit}

\* enum Material
MaterialOf(o) ==
    CASE o = "lambertian" -> "Lambertian"
      [] o = "metal" -> "Metal"
      [] o = "glass" -> "Dieletrics"
      [] o = "lamp" -> "Emissive"

\* albedo / tint / emitted colour of the object's material
MaterialColor(o) ==
    CASE o = "lambertian" -> Color(<<1, 2>>, <<1, 2>>, <<1, 2>>)
      [] o = "metal" -> Color(Rat(1), <<1, 2>>, <<1, 4>>)
      [] o = "glass" -> Color(Rat(1), Rat(1), Rat(1))
      [] o = "lamp" -> Color(Rat(4), Rat(4), Rat(2))

Backgrounds == {Black, Color(<<1, 2>>, <<3, 4>>, Rat(1))}

\* Material::scatter: the shapes of result each material can give.
\*   "none" = None, "emit" = Some((None, c)), "cont" = Some((Some(ray), c))
ScatterOutcomes(o) ==
    CASE MaterialOf(o) = "Lambertian" -> {"cont"}
      [] MaterialOf(o) = "Metal" -> {"cont", "none"}
      [] MaterialOf(o) = "Dieletrics" -> {"cont"}
      [] MaterialOf(o) = "Emissive" -> {"emit"}

\* u8 arithmetic of the depth arguments (wrapping, as in a release build)
U8Add(a, k) == (a + k) % 256
U8Sub(a, k) == (a - k + 256) % 256

VARIABLES
    depth,       \* compute_image's depth argument: max_depth of the primary ray
    nLights,     \* scene.lights.len()
    background,  \* scene_config.image.background
    stack,       \* the active calls of Ray::trace, innermost last
    lastRet,     \* the call of Ray::trace that returned in the step just taken
    result,      \* the colour returned to compute_image
    shadowRays,  \* the shadow rays cast so far
    \* compute_image
    phase,        \* "loaded", "render" (after precompute), "write" (write_image)
    width,        \* scene_config.image.width
    height,       \* scene_config.image.height
    resolution,   \* the resolution of the ssaa argument
    traced,       \* per sample <<i, j, s>>: the trace call made for it
    pixels,       \* per pixel <<i, j>>: the colour its closure returned
    rows,         \* per pixel row j: the collected Vec<Color>, <<>> before
    pixel_colors, \* the collected Vec<Vec<Color>>
    \* Color::clamp and the end of the pixel closure, applied to given colours
    cIn, cCount, cOut, pOut,
    \* uniform_grid_sampling, applied to given arguments
    sResolution, sX, sY, sCalls, sFirst, samples,
    \* SuperSampling::from_str, applied to a given string
    arg,          \* the &str, as the sequence of its characters
    parsed,       \* the Result<SuperSampling, SSAADecodeError>
    \* the intersect functions, applied to a given ray
    ray,           \* the Ray { origin, direction }
    object,        \* self: the Sphere, Plane, Mesh or AABB
    scene_objects, \* self.objects of the Scene
    intersection,  \* what the function returned
    \* Material::scatter, applied to a given ray and intersection
    self_material, \* self: the Material
    rng,           \* the random numbers drawn during the call
    scattered,     \* the Option<(Option<Ray>, Color)> returned
    \* Vector3::random_unit_vector
    random_pc,     \* "loop" inside random_in_unit_sphere, "done" after the return
    random_v,      \* v: the last Vector3::random(-1.0, 1.0) drawn in the loop
    unit_vector,   \* the vector that random_unit_vector returned
    \* Scene::precompute
    lights,        \* self.lights of the Scene
    scene_pc       \* "deserialized" before Scene::precompute, "precomputed" after

traceVars == <<nLights, background, stack, lastRet, result, shadowRays>>
renderVars == <<phase, width, height, resolution, traced, pixels, rows, pixel_colors>>
colorVars == <<cIn, cCount, cOut, pOut>>
samplingVars == <<sResolution, sX, sY, sCalls, sFirst, samples>>
parseVars == <<arg, parsed>>
geomVars == <<ray, object, scene_objects, intersection>>
scatterVars == <<self_material, rng, scattered>>
randomVars == <<random_pc, random_v, unit_vector>>
sceneVars == <<lights, scene_pc>>
vars == <<depth, traceVars, renderVars, colorVars, samplingVars, parseVars, geomVars, scatterVars, randomVars, sceneVars>>

NoRet == [kind |-> "none"]
NoColor == [none |-> TRUE]

\* The parts of the state a specification does not use stay as they are here.
TraceIdle ==
    /\ nLights = 0 /\ background = Black /\ stack = <<>>
    /\ lastRet = NoRet /\ result = NoColor /\ shadowRays = 0
RenderIdle ==
    /\ phase = "off" /\ width = 0 /\ height = 0 /\ resolution = 0
    /\ traced = <<>> /\ pixels = <<>> /\ rows = <<>> /\ pixel_colors = <<>>
ColorIdle == cIn = NoColor /\ cCount = 0 /\ cOut = NoColor /\ pOut = NoColor
SamplingIdle ==
    /\ sResolution = 0 /\ sX = 0 /\ sY = 0 /\ sCalls = 0
    /\ sFirst = <<>> /\ samples = <<>>
NotCalled == [called |-> FALSE]
ParseIdle == arg = <<>> /\ parsed = NotCalled
GeomIdle ==
    /\ ray = NotCalled /\ object = NotCalled
    /\ scene_objects = <<>> /\ intersection = NotCalled
RandomIdle == random_pc = "off" /\ random_v = <<>> /\ unit_vector = <<>>
SceneIdle == lights = <<>> /\ scene_pc = "off"
ScatterIdle == self_material = NotCalled /\ rng = NotCalled /\ scattered = NotCalled

\* ------------------------------------------------------------- Ray::trace
\* One active call of Ray::trace(&self, scene_config, current_depth, max_depth).
\* target is the ray's closest intersection in the scene (a fact of the ray
\* and the scene, whether or not the call asks for it); the fields after pc
\* record what the call has done so far.
Frame(kind, cd, md, target) ==
    [kind |-> kind, cd |-> cd, md |-> md, target |-> target, pc |-> "entry",
     queried |-> FALSE, scat |-> "-", albedo |-> Black,
     contCd |-> -1, contMd |-> -1, scattered_color |-> Black,
     sampled |-> FALSE, li |-> 0, shadowCast |-> 0, target_color |-> Black,
     light_color |-> Black]

Top == stack[Len(stack)]

\* a depth check that lets the call at max_depth through
ExhaustedLate(cd, md) == cd > md

\* if current_depth == max_depth { return black }
Exhausted(cd, md) == cd = md

\* a miss that yields black instead of the background
MissColorBlack(bg) == Black

\* the colour of a ray that hits nothing: scene_config.image.background
MissColor(bg) == bg

\* the two arms exchanged
NoContinuationColorSwapped(scat, albedo) == IF scat = "emit" THEN Black ELSE albedo

\* the arms of the match that make no further call:
\*   Some((None, albedo)) => albedo,   None => Color::new(0, 0, 0)
NoContinuationColor(scat, albedo) == IF scat = "emit" THEN albedo ELSE Black

\* scatter.trace(scene_config, current_depth + 1, max_depth)
ContinuationDepth(cd) == U8Add(cd, 1)

\* prob = 0.1, or 0.05 for Material::Dieletrics, in hundredths
LightProb(material) == IF material = "Dieletrics" THEN 5 ELSE 10

\* The values of rng.gen::<f64>() that matter, in hundredths.
Draws == {0, 50, 85, 92, 97}

\* a gate without the test of the depth
GateOpenAnyDepth(lights_len, material, draw, cd, md) ==
    /\ lights_len > 0
    /\ draw > 100 - lights_len * LightProb(material)

\* lights_len > 0.0 && rng.gen::<f64>() > (1.0 - lights_len * prob)
\*                  && current_depth == (max_depth - 1)
GateOpen(lights_len, material, draw, cd, md) ==
    /\ lights_len > 0
    /\ draw > 100 - lights_len * LightProb(material)
    /\ cd = U8Sub(md, 1)

\* the result without the direct-light term
TraceColorNoLight(light_color, albedo, scattered_color) ==
    ColorMul(albedo, scattered_color)

\* light_color + (albedo * scattered_color)
TraceColor(light_color, albedo, scattered_color) ==
    ColorAdd(light_color, ColorMul(albedo, scattered_color))

\* The record kept of a call that returns.
Returned(f, value) ==
    [kind |-> f.kind, cd |-> f.cd, md |-> f.md, target |-> f.target,
     queried |-> f.queried, scat |-> f.scat, albedo |-> f.albedo,
     contCd |-> f.contCd, contMd |-> f.contMd,
     scattered_color |-> f.scattered_color, sampled |-> f.sampled,
     shadowCast |-> f.shadowCast, light_color |-> f.light_color,
     value |-> value]

\* The caller's frame once the call `child` has returned `value` to it.
Resume(parent, child, value) ==
    IF parent.pc = "wait_scatter"
    THEN [parent EXCEPT !.pc = "gate", !.scattered_color = value,
                        !.contCd = child.cd, !.contMd = child.md]
    ELSE [parent EXCEPT !.pc = "light_ret", !.target_color = value]

\* The innermost call, in state f, returns value.
Return(f, value) ==
    /\ lastRet' = Returned(f, value)
    /\ IF Len(stack) = 1
       THEN /\ stack' = <<>>
            /\ result' = value
       ELSE /\ stack' = SubSeq(stack, 1, Len(stack) - 2) \o
                        <<Resume(stack[Len(stack) - 1], f, value)>>
            /\ result' = result
    /\ UNCHANGED <<depth, nLights, background, shadowRays>>
    /\ UNCHANGED <<renderVars, colorVars, samplingVars, parseVars, geomVars, scatterVars, randomVars, sceneVars>>

\* The innermost call, now in state f, calls trace on a new ray.
Call(f, kind, cd, md) ==
    /\ \E t \in Targets :
         stack' = SubSeq(stack, 1, Len(stack) - 1) \o <<f, Frame(kind, cd, md, t)>>
    /\ lastRet' = NoRet
    /\ UNCHANGED <<depth, nLights, background, result>>
    /\ UNCHANGED <<renderVars, colorVars, samplingVars, parseVars, geomVars, scatterVars, randomVars, sceneVars>>

TraceInit ==
    /\ depth \in 0 .. MaxDepth
    /\ nLights \in 0 .. MaxLights
    /\ background \in Backgrounds
    /\ \E t \in Targets : stack = <<Frame("primary", 0, depth, t)>>
    /\ lastRet = NoRet
    /\ result = NoColor
    /\ shadowRays = 0

\* current_depth == max_depth: black, before anything else
TraceExhausted ==
    /\ stack # <<>>
    /\ Top.pc = "entry"
    /\ Exhausted(Top.cd, Top.md)
    /\ Return(Top, Black)

\* get_closest_interesection(self) is None: the background
TraceMiss ==
    /\ stack # <<>>
    /\ Top.pc = "entry"
    /\ ~Exhausted(Top.cd, Top.md)
    /\ Top.target = NoHit
    /\ Return([Top EXCEPT !.queried = TRUE], MissColor(background))

\* a hit whose material's scatter gives no continuation ray
TraceNoContinuation ==
    /\ stack # <<>>
    /\ Top.pc = "entry"
    /\ ~Exhausted(Top.cd, Top.md)
    /\ Top.target # NoHit
    /\ \E s \in ScatterOutcomes(Top.target) \ {"cont"} :
         Return([Top EXCEPT !.queried = TRUE, !.scat = s,
                            !.albedo = IF s = "emit" THEN MaterialColor(Top.target)
                                       ELSE Black],
                NoContinuationColor(s, MaterialColor(Top.target)))

\* a hit whose material's scatter gives a continuation ray: trace it
TraceScatter ==
    /\ stack # <<>>
    /\ Top.pc = "entry"
    /\ ~Exhausted(Top.cd, Top.md)
    /\ Top.target # NoHit
    /\ "cont" \in ScatterOutcomes(Top.target)
    /\ Call([Top EXCEPT !.queried = TRUE, !.scat = "cont", !.pc = "wait_scatter",
                        !.albedo = MaterialColor(Top.target)],
            "scattered", ContinuationDepth(Top.cd), Top.md)
    /\ UNCHANGED shadowRays

\* the shadow ray towards light l: shadow_ray.trace(scene_config, 0, 1)
CastShadow(f, l) ==
    /\ shadowRays < MaxShadowRays
    /\ shadowRays' = shadowRays + 1
    /\ Call([f EXCEPT !.pc = "wait_light", !.sampled = TRUE, !.li = l,
                      !.shadowCast = f.shadowCast + 1],
            "shadow", 0, 1)

\* the continuation ray's colour is known: decide on direct-light sampling
TraceGate ==
    /\ stack # <<>>
    /\ Top.pc = "gate"
    /\ \E draw \in Draws :
         IF GateOpen(nLights, MaterialOf(Top.target), draw, Top.cd, Top.md)
         THEN CastShadow(Top, 1)
         ELSE Return(Top, TraceColor(Top.light_color, Top.albedo, Top.scattered_color))

\* a shadow ray's colour is known: light_color += albedo * target_color, then
\* the next light, or light_color /= lights_len and the result
TraceLight ==
    /\ stack # <<>>
    /\ Top.pc = "light_ret"
    /\ LET sum == ColorAdd(Top.light_color, ColorMul(Top.albedo, Top.target_color))
       IN IF Top.li < nLights
          THEN CastShadow([Top EXCEPT !.light_color = sum], Top.li + 1)
          ELSE LET f == [Top EXCEPT !.light_color = ColorDiv(sum, nLights)]
               IN Return(f, TraceColor(f.light_color, f.albedo, f.scattered_color))

TraceNext ==
    \/ TraceExhausted
    \/ TraceMiss
    \/ TraceNoContinuation
    \/ TraceScatter
    \/ TraceGate
    \/ TraceLight

Init == TraceInit /\ RenderIdle /\ ColorIdle /\ SamplingIdle /\ ParseIdle /\ GeomIdle /\ ScatterIdle /\ RandomIdle /\ SceneIdle
Next == TraceNext
Spec == Init /\ [][Next]_vars

\* ------------------------------------------------- claims about Ray::trace
HasReturned == lastRet.kind # "none"

\* C1: the nesting depth of the active trace calls is bounded by a constant
\* that depends only on max_depth: max_depth calls of the primary path (depths
\* 0 .. max_depth - 1), one shadow ray and that shadow ray's continuation.
C1_NestingBoundedByMaxDepth == Len(stack) <= depth + 2

\* C2: a shadow ray makes no further bounce: while it is traced no shadow ray
\* is cast, and its colour is the emission of the first surface it hits, black
\* for any other surface, or the background when it hits nothing.
C2_ShadowRayNoFurtherBounce ==
    (HasReturned /\ lastRet.kind = "shadow") =>
        /\ lastRet.shadowCast = 0
        /\ lastRet.value = IF lastRet.target = NoHit THEN background
                           ELSE IF MaterialOf(lastRet.target) = "Emissive"
                                THEN MaterialColor(lastRet.target)
                                ELSE Black

\* C3: a call with current_depth == max_depth returns black without asking
\* the scene for an intersection and without invoking a material's scatter.
C3_ExhaustedReturnsBlack ==
    (HasReturned /\ lastRet.cd = lastRet.md) =>
        /\ lastRet.value = Black
        /\ ~lastRet.queried
        /\ lastRet.scat = "-"

C3_Witness ==
    /\ HasReturned
    /\ lastRet.cd = lastRet.md
    /\ lastRet.md > 0
    /\ lastRet.target # NoHit

\* C4, as stated: a ray that intersects no object returns the background for
\* every current_depth and max_depth.
C4_MissReturnsBackgroundAtEveryDepth ==
    (HasReturned /\ lastRet.target = NoHit) => lastRet.value = background

\* C4, amended: a ray that intersects no object returns the background when
\* current_depth # max_depth, and black when current_depth == max_depth.
C4_MissReturnsBackgroundBelowMaxDepth ==
    (HasReturned /\ lastRet.target = NoHit) =>
        lastRet.value = IF lastRet.cd = lastRet.md THEN Black ELSE background

C4_Witness ==
    /\ HasReturned
    /\ lastRet.target = NoHit
    /\ lastRet.cd > 0
    /\ lastRet.cd # lastRet.md
    /\ background # Black
    /\ lastRet.value = background

\* C5: when scatter yields no continuation ray the call returns directly, the
\* emitted colour for Some((None, c)) and black for None, with no recursive
\* trace call and no shadow ray.
C5_NoContinuationReturnsDirectly ==
    (HasReturned /\ lastRet.scat \in {"emit", "none"}) =>
        /\ lastRet.value = IF lastRet.scat = "emit"
                           THEN MaterialColor(lastRet.target) ELSE Black
        /\ lastRet.contCd = -1
        /\ lastRet.shadowCast = 0

C5_Witness ==
    /\ HasReturned
    /\ lastRet.scat = "emit"
    /\ lastRet.cd > 0
    /\ lastRet.value # Black

\* C6: when scatter yields a continuation ray with attenuation a, the call at
\* depth d returns light_contribution + a * scattered_color, scattered_color
\* being traced at depth d + 1 with the same max_depth, and
\* light_contribution is black when direct light was not sampled.
C6_ContinuationColour ==
    (HasReturned /\ lastRet.scat = "cont") =>
        /\ lastRet.value = ColorAdd(lastRet.light_color,
                                    ColorMul(lastRet.albedo, lastRet.scattered_color))
        /\ lastRet.albedo = MaterialColor(lastRet.target)
        /\ lastRet.contCd = lastRet.cd + 1
        /\ lastRet.contMd = lastRet.md
        /\ (~lastRet.sampled => lastRet.light_color = Black)

C6_Witness ==
    /\ HasReturned
    /\ lastRet.scat = "cont"
    /\ lastRet.sampled
    /\ lastRet.light_color # Black
    /\ lastRet.cd > 0

\* ---------------------------------------------------------- compute_image
\* The colours a primary ray's trace can return: scene colours are not
\* validated when the scene file is read, so a channel may exceed 1 or be
\* negative.
PrimaryColors == {Color(<<1, 4>>, Rat(1), Rat(4)), Color(Rat(-1), Rat(0), <<1, 2>>)}

Pixels == (0 .. width - 1) \X (0 .. height - 1)
SampleKeys ==
    {<<p[1], p[2], s>> : p \in Pixels, s \in 1 .. Len(SsaaSample(resolution, 0, 0))}

NotTraced == [times |-> 0]
NotComputed == [runs |-> 0]

\* ray.trace(&scene_config, 0, depth), returning c
PrimaryTrace(d, c) == [times |-> 1, cd |-> 0, md |-> d, value |-> c]

\* .reduce(|| Color::new(0.0, 0.0, 0.0), |a, b| a + b) over the samples 1 .. k
\* of pixel (i, j)
RECURSIVE SampleSum(_, _, _)
SampleSum(i, j, k) ==
    IF k = 0 THEN Black ELSE ColorAdd(SampleSum(i, j, k - 1), traced[<<i, j, k>>].value)

\* the end of the pixel closure without the gamma adjustment
PixelColorNoGamma(sum, count) == Clamp(ColorAverage(sum, count))

\* pixel_color += samples_color; pixel_color /= count; the gamma adjustment;
\* pixel_color.clamp()
PixelColor(sum, count) == Clamp(ColorSqrt(ColorAverage(ColorAdd(Black, sum), count)))

\* the rows in the order of the range, without .rev()
RowSourceUnreversed(r, h) == r

\* (0..height).into_par_iter().rev(): the pixel row j that element r of the
\* collected vector comes from (r counted from 0)
RowSource(r, h) == h - 1 - r

\* The scenes rendered: a lamp sphere and no entry under lights; a plane, a
\* mesh, a point light and a deterministic area light
RenderScenes ==
    {Scene(<<>>, <<Sphere(V3(0, 0, 0), Rat(1), "lamp")>>),
     Scene(<<Light(<<>>, Color(Rat(1), Rat(1), Rat(1)), PointLight(V3(0, 2, 0))),
             Light(<<>>, Color(Rat(1), Rat(1), Rat(1)),
                   AreaLight(V3(0, 2, 0), V3(1, 0, 0), V3(0, 0, 1), 1, TRUE))>>,
           <<Plane(V3(1, 0, 0), V3(-1, 0, 0), "lambertian"),
             MeshOf(<<<<V3(1, -1, 0), V3(1, 1, 0), V3(2, 0, 0)>>>>)>>)}

RenderInit ==
    /\ depth \in 0 .. MaxDepth
    /\ width \in 1 .. MaxWidth
    /\ height \in 1 .. MaxHeight
    /\ resolution \in 0 .. MaxResolution
    /\ width * height * resolution * resolution <= MaxSamples
    /\ phase = "loaded"
    /\ traced = [k \in SampleKeys |-> NotTraced]
    /\ pixels = [p \in Pixels |-> NotComputed]
    /\ rows = [j \in 0 .. height - 1 |-> <<>>]
    /\ pixel_colors = <<>>
    /\ \E scene \in RenderScenes :
          /\ lights = scene.lights
          /\ scene_objects = scene.objects
    /\ scene_pc = "deserialized"
    /\ ray = NotCalled /\ object = NotCalled /\ intersection = NotCalled
    /\ TraceIdle /\ ColorIdle /\ SamplingIdle /\ ParseIdle /\ ScatterIdle /\ RandomIdle

\* scene_config.scene.precompute(), before the parallel iterators start
Precompute ==
    /\ phase = "loaded"
    /\ \E gens \in LightGens(lights) : lights' = PrecomputeLights(lights, gens)
    /\ scene_objects' = PrecomputeObjects(scene_objects)
    /\ scene_pc' = "precomputed"
    /\ phase' = "render"
    /\ UNCHANGED <<depth, width, height, resolution, traced, pixels, rows, pixel_colors>>
    /\ UNCHANGED <<ray, object, intersection>>
    /\ UNCHANGED <<traceVars, colorVars, samplingVars, parseVars, scatterVars, randomVars>>

\* a worker runs the sample closure for sample s of pixel (i, j)
TraceSample ==
    /\ phase = "render"
    /\ \E k \in SampleKeys :
         /\ traced[k].times = 0
         /\ \E c \in PrimaryColors :
              traced' = [traced EXCEPT ![k] = PrimaryTrace(depth, c)]
    /\ UNCHANGED <<depth, phase, width, height, resolution, pixels, rows, pixel_colors>>
    /\ UNCHANGED <<traceVars, colorVars, samplingVars, parseVars, geomVars, scatterVars, randomVars, sceneVars>>

\* a worker finishes the pixel closure of (i, j): its samples are reduced
FinishPixel ==
    /\ phase = "render"
    /\ \E p \in Pixels :
         LET count == Len(SsaaSample(resolution, p[1], p[2]))
         IN /\ pixels[p].runs = 0
            /\ \A s \in 1 .. count : traced[<<p[1], p[2], s>>].times > 0
            /\ pixels' = [pixels EXCEPT ![p] =
                   [runs |-> 1,
                    value |-> PixelColor(SampleSum(p[1], p[2], count), count)]]
    /\ UNCHANGED <<depth, phase, width, height, resolution, traced, rows, pixel_colors>>
    /\ UNCHANGED <<traceVars, colorVars, samplingVars, parseVars, geomVars, scatterVars, randomVars, sceneVars>>

\* the inner .collect(): the pixels of row j, in the order of i
CollectRow ==
    /\ phase = "render"
    /\ \E j \in 0 .. height - 1 :
         /\ rows[j] = <<>>
         /\ \A i \in 0 .. width - 1 : pixels[<<i, j>>].runs > 0
         /\ rows' = [rows EXCEPT ![j] = [x \in 1 .. width |-> pixels[<<x - 1, j>>].value]]
    /\ UNCHANGED <<depth, phase, width, height, resolution, traced, pixels, pixel_colors>>
    /\ UNCHANGED <<traceVars, colorVars, samplingVars, parseVars, geomVars, scatterVars, randomVars, sceneVars>>

\* the outer .collect(), and pixel_colors handed to image::write_image
CollectImage ==
    /\ phase = "render"
    /\ \A j \in 0 .. height - 1 : rows[j] # <<>>
    /\ pixel_colors' = [r \in 1 .. height |-> rows[RowSource(r - 1, height)]]
    /\ phase' = "write"
    /\ UNCHANGED <<depth, width, height, resolution, traced, pixels, rows>>
    /\ UNCHANGED <<traceVars, colorVars, samplingVars, parseVars, geomVars, scatterVars, randomVars, sceneVars>>

RenderNext ==
    \/ Precompute
    \/ TraceSample
    \/ FinishPixel
    \/ CollectRow
    \/ CollectImage

SpecRender == RenderInit /\ [][RenderNext]_vars

\* C7: every pixel's colour is, per channel, clamp(sqrt(S / k)), S the sum of
\* the traces of the k samples of ssaa.sample(i, j); every sample is traced
\* exactly once, from current_depth 0 with max_depth = depth.
C7_PixelIsGammaOfSampleMean ==
    \A p \in Pixels :
        pixels[p].runs > 0 =>
            LET k == Len(SsaaSample(resolution, p[1], p[2]))
                S == SampleSum(p[1], p[2], k)
                mean == Color(RDivCount(S.r, k), RDivCount(S.g, k), RDivCount(S.b, k))
            IN /\ k = resolution * resolution
               /\ \A s \in 1 .. k :
                     /\ traced[<<p[1], p[2], s>>].times = 1
                     /\ traced[<<p[1], p[2], s>>].cd = 0
                     /\ traced[<<p[1], p[2], s>>].md = depth
               /\ pixels[p].runs = 1
               /\ pixels[p].value = Color(MinOne(RSqrt(mean.r)), MinOne(RSqrt(mean.g)),
                                          MinOne(RSqrt(mean.b)))

C7_Witness ==
    /\ phase = "write"
    /\ resolution = 2
    /\ depth > 0
    /\ \E p \in Pixels : \E v \in Channels(pixels[p].value) : IsRoot(v)
    /\ \E p \in Pixels : \E s, t \in 1 .. 4 :
           traced[<<p[1], p[2], s>>].value # traced[<<p[1], p[2], t>>].value

\* C9: the collected grid has height rows of width colours, every pixel was
\* computed exactly once, row r holds pixel row height - 1 - r and column i
\* holds pixel column i, whatever the order the workers ran in.
C9_GridLayout ==
    /\ \A p \in Pixels : pixels[p].runs <= 1
    /\ phase = "write" =>
          /\ Len(pixel_colors) = height
          /\ \A r \in 0 .. height - 1 :
                /\ Len(pixel_colors[r + 1]) = width
                /\ \A i \in 0 .. width - 1 :
                      /\ pixels[<<i, height - 1 - r>>].runs = 1
                      /\ pixel_colors[r + 1][i + 1] = pixels[<<i, height - 1 - r>>].value

C9_Witness ==
    /\ phase = "write"
    /\ width = 2
    /\ height = 2
    /\ pixel_colors[1] # pixel_colors[2]
    /\ pixel_colors[1][1] # pixel_colors[1][2]

\* ------------------------------------------- Color::clamp on given colours
ChannelInputs == {<<-1, 2>>, Rat(0), <<1, 4>>, Rat(1), <<3, 2>>, NaN}

ColorInit ==
    /\ depth = 0
    /\ cIn \in {Color(r, g, b) : r \in ChannelInputs, g \in ChannelInputs, b \in ChannelInputs}
    /\ cCount \in 0 .. MaxSamples
    /\ cCount = 0 => cIn = Black
    /\ cOut = NoColor
    /\ pOut = NoColor
    /\ TraceIdle /\ RenderIdle /\ SamplingIdle /\ ParseIdle /\ GeomIdle /\ ScatterIdle /\ RandomIdle /\ SceneIdle

\* c.clamp()
ApplyClamp ==
    /\ cOut = NoColor
    /\ cOut' = Clamp(cIn)
    /\ UNCHANGED <<depth, cIn, cCount, pOut>>
    /\ UNCHANGED <<traceVars, renderVars, samplingVars, parseVars, geomVars, scatterVars, randomVars, sceneVars>>

\* the end of the pixel closure, for the sample sum cIn of cCount samples
ApplyPixelColor ==
    /\ pOut = NoColor
    /\ pOut' = PixelColor(cIn, cCount)
    /\ UNCHANGED <<depth, cIn, cCount, cOut>>
    /\ UNCHANGED <<traceVars, renderVars, samplingVars, parseVars, geomVars, scatterVars, randomVars, sceneVars>>

ColorNext ==
    \/ ApplyClamp
    \/ ApplyPixelColor

SpecColor == ColorInit /\ [][ColorNext]_vars

ChannelPairs(a, c) == {<<a.r, c.r>>, <<a.g, c.g>>, <<a.b, c.b>>}
IsNegative(v) == ~IsNaN(v) /\ v[1] < 0

\* C8, as stated: after Color::clamp every channel lies in [0,1], whatever it
\* was before, and so does every channel of a pixel handed to the encoder.
C8_ClampIntoUnitInterval ==
    /\ cOut # NoColor => \A v \in Channels(cOut) : InUnit(v)
    /\ pOut # NoColor => \A v \in Channels(pOut) : InUnit(v)

\* C8, amended: after Color::clamp every channel is at most 1: a channel
\* above 1 (or NaN) becomes 1 and any other channel is unchanged, so a
\* channel that was in [0, oo) lies in [0,1] and a negative one stays
\* negative.  Every channel of a pixel handed to the encoder lies in [0,1],
\* the square root taken before the clamp being never negative.
C8_ClampAtMostOne ==
    /\ cOut # NoColor =>
          \A io \in ChannelPairs(cIn, cOut) :
              /\ ~IsNaN(io[2]) /\ LeOne(io[2])
              /\ (IsNaN(io[1]) \/ ~LeOne(io[1])) => io[2] = Rat(1)
              /\ (~IsNaN(io[1]) /\ LeOne(io[1])) => io[2] = io[1]
              /\ (~IsNaN(io[1]) /\ ~IsNegative(io[1])) => InUnit(io[2])
              /\ IsNegative(io[1]) => IsNegative(io[2])
    /\ pOut # NoColor => \A v \in Channels(pOut) : InUnit(v)

C8_Witness ==
    /\ cOut # NoColor
    /\ pOut # NoColor
    /\ IsNegative(cIn.r)
    /\ ~LeOne(cIn.g)
    /\ cCount = 2
    /\ IsRoot(pOut.b)

\* -------------------------------- uniform_grid_sampling on given arguments
SamplingInit ==
    /\ depth = 0
    /\ sResolution \in 0 .. MaxResolution
    /\ sX \in 0 .. MaxCoord
    /\ sY \in 0 .. MaxCoord
    /\ sCalls = 0
    /\ sFirst = <<>>
    /\ samples = <<>>
    /\ TraceIdle /\ RenderIdle /\ ColorIdle /\ ParseIdle /\ GeomIdle /\ ScatterIdle /\ RandomIdle /\ SceneIdle

\* uniform_grid_sampling(resolution, base_x, base_y), called once more
SampleCall ==
    /\ sCalls < MaxCalls
    /\ sCalls' = sCalls + 1
    /\ samples' = UniformGridSampling(sResolution, sX, sY)
    /\ sFirst' = IF sCalls = 0 THEN samples' ELSE sFirst
    /\ UNCHANGED <<depth, sResolution, sX, sY>>
    /\ UNCHANGED <<traceVars, renderVars, colorVars, parseVars, geomVars, scatterVars, randomVars, sceneVars>>

SamplingNext == SampleCall

SpecSampling == SamplingInit /\ [][SamplingNext]_vars

\* C10: uniform grid sampling returns n * n samples, the one at position
\* i * n + j being (x + i/n, y + j/n), and the same list on every call.
C10_UniformGrid ==
    sCalls > 0 =>
        /\ Len(samples) = sResolution * sResolution
        /\ \A i, j \in 0 .. sResolution - 1 :
              samples[i * sResolution + j + 1] =
                  <<Norm(sX * sResolution + i, sResolution),
                    Norm(sY * sResolution + j, sResolution)>>
        /\ samples = sFirst

C10_Witness ==
    /\ sCalls = 2
    /\ sResolution = 2
    /\ sX = 1
    /\ sY = 2
    /\ samples = << <<Rat(1), Rat(2)>>, <<Rat(1), <<5, 2>>>>,
                    <<<<3, 2>>, Rat(2)>>, <<<<3, 2>>, <<5, 2>>>> >>

\* -------------------------------------- jitter_sampling on given arguments
JitterInit ==
    /\ depth = 0
    /\ sResolution \in 0 .. MaxResolution
    /\ sX \in 0 .. MaxCoord
    /\ sY \in 0 .. MaxCoord
    /\ sCalls = 0
    /\ sFirst = <<>>
    /\ samples = <<>>
    /\ TraceIdle /\ RenderIdle /\ ColorIdle /\ ParseIdle /\ GeomIdle /\ ScatterIdle /\ RandomIdle /\ SceneIdle

\* jitter_sampling(resolution, base_x, base_y), for every outcome of its draws
JitterCall ==
    /\ sCalls = 0
    /\ sCalls' = 1
    /\ \E draws \in [1 .. sResolution * sResolution -> JitterDraws] :
          samples' = JitterSampling(sResolution, sX, sY, draws)
    /\ sFirst' = samples'
    /\ UNCHANGED <<depth, sResolution, sX, sY>>
    /\ UNCHANGED <<traceVars, renderVars, colorVars, parseVars, geomVars, scatterVars, randomVars, sceneVars>>

JitterNext == JitterCall

SpecJitter == JitterInit /\ [][JitterNext]_vars

\* C11: jitter sampling returns n * n samples, and whatever the generator
\* draws, the sample at position i * n + j lies in cell (i, j):
\* x + i/n <= sx <= x + (i+1)/n and y + j/n <= sy <= y + (j+1)/n.
C11_JitterInsideCell ==
    sCalls > 0 =>
        /\ Len(samples) = sResolution * sResolution
        /\ \A i, j \in 0 .. sResolution - 1 :
              LET s == samples[i * sResolution + j + 1]
                  n == sResolution
              IN /\ RLe(Norm(sX * n + i, n), s[1])
                 /\ RLe(s[1], Norm(sX * n + i + 1, n))
                 /\ RLe(Norm(sY * n + j, n), s[2])
                 /\ RLe(s[2], Norm(sY * n + j + 1, n))

C11_Witness ==
    /\ sCalls = 1
    /\ sResolution = 2
    /\ sX = 1
    /\ sY = 2
    /\ samples[2] = << <<11, 8>>, <<21, 8>> >>
    /\ samples[3] = << <<13, 8>>, <<19, 8>> >>

\* ------------------------------ SuperSampling::from_str on a given string
ParseInit ==
    /\ depth = 0
    /\ arg \in SsaaStrs
    /\ parsed = NotCalled
    /\ TraceIdle /\ RenderIdle /\ ColorIdle /\ SamplingIdle /\ GeomIdle /\ ScatterIdle /\ RandomIdle /\ SceneIdle

\* SuperSampling::from_str(arg)
FromStrCall ==
    /\ parsed = NotCalled
    /\ parsed' = FromStr(arg)
    /\ UNCHANGED <<depth, arg>>
    /\ UNCHANGED <<traceVars, renderVars, colorVars, samplingVars, geomVars, scatterVars, randomVars, sceneVars>>

ParseNext == FromStrCall

SpecParse == ParseInit /\ [][ParseNext]_vars

\* the decimal digits of n < 100, as a string
Decimal(n) ==
    IF n < 10 THEN <<Digits[n + 1]>> ELSE <<Digits[(n \div 10) + 1], Digits[(n % 10) + 1]>>

\* C12: from_str("uniform:<n>") is the Uniform strategy with resolution n and
\* from_str("jitter:<n>") is the Jitter strategy with resolution n.
C12_ParseSelectsNamedStrategy ==
    parsed # NotCalled =>
        \A n \in 0 .. 99 :
            /\ arg = UniformStr \o <<":">> \o Decimal(n) => parsed = Ok(Uniform(n))
            /\ arg = JitterStr \o <<":">> \o Decimal(n) => parsed = Ok(Jitter(n))

\* a string that reads as an unsigned integer: digits, after an optional "+"
IsUnsigned(s) ==
    LET digits == IF s # <<>> /\ s[1] = "+" THEN Tail(s) ELSE s
    IN digits # <<>> /\ \A k \in 1 .. Len(digits) : IsDigit(digits[k])

\* C13: from_str returns an error, and no SuperSampling value, in exactly
\* these cases: 'jitter' or 'uniform' without a ':<n>' part gives "no
\* arguments supplied, need resolution for <method>"; a part after ':' that
\* is not an unsigned integer gives "resolution has to be an integer"; any
\* other method gives "unknown method".
C13_ParseErrors ==
    parsed # NotCalled =>
        LET parts == Split(arg)
            named == parts[1] = JitterStr \/ parts[1] = UniformStr
            noArgs == named /\ Len(parts) < 2
            noInt == named /\ Len(parts) >= 2 /\ ~IsUnsigned(parts[2])
        IN /\ ~parsed.ok <=> (~named \/ noArgs \/ noInt)
           /\ ~parsed.ok => DOMAIN parsed = {"ok", "error"}
           /\ parsed.ok => parsed.value.variant \in {"Uniform", "Jitter"}
           /\ (noArgs /\ parts[1] = JitterStr) =>
                 parsed = Err("no arguments supplied, need resolution for jitter")
           /\ (noArgs /\ parts[1] = UniformStr) =>
                 parsed = Err("no arguments supplied, need resolution for uniform")
           /\ noInt => parsed = Err("resolution has to be an integer")
           /\ ~named => parsed = Err("unknown method")

C13_Witness ==
    /\ parsed = Err("resolution has to be an integer")
    /\ arg = UniformStr \o <<":", "2", "x", ":", "3">>

\* ------------------------------------------ Sphere::intersect on a given ray
SphereInit ==
    /\ depth = 0
    /\ ray \in Rays
    /\ object \in {Sphere(V3(x, y, 0), radius, "lamp") :
                      x \in -MaxGeom .. MaxGeom, y \in -MaxGeom .. MaxGeom,
                      radius \in {<<1, 2>>, Rat(1), Rat(2)}}
    /\ HasRationalRoot(Discriminant(object, ray))
    /\ scene_objects = <<>>
    /\ intersection = NotCalled
    /\ TraceIdle /\ RenderIdle /\ ColorIdle /\ SamplingIdle /\ ParseIdle /\ ScatterIdle /\ RandomIdle /\ SceneIdle

\* object.intersect(&ray), object a Sphere
SphereCall ==
    /\ intersection = NotCalled
    /\ intersection' = SphereIntersect(object, ray)
    /\ UNCHANGED <<depth, ray, object, scene_objects>>
    /\ UNCHANGED <<traceVars, renderVars, colorVars, samplingVars, parseVars, scatterVars, randomVars, sceneVars>>

SphereNext == SphereCall

SpecSphere == SphereInit /\ [][SphereNext]_vars

\* a * t * t + b * t + c = 0
IsQuadRoot(t) ==
    FEq(FAdd(FAdd(FMul(FMul(QuadA(object, ray), t), t), FMul(QuadB(object, ray), t)),
             QuadC(object, ray)), PosZero)
\* the two roots of the quadratic add up to -b / a
OtherRoot(t) == FSub(FDiv(FNeg(QuadB(object, ray)), QuadA(object, ray)), t)

\* C15: Sphere::intersect returns the hit at the smallest root t of the
\* ray-sphere quadratic that exceeds 1e-5 (the far root when the origin is
\* inside the sphere), None when no root exceeds 1e-5, with
\* normal = (hit - center) / radius and point = origin + t * direction.
C15_SphereSmallestRootAboveEpsilon ==
    (intersection # NotCalled /\ ~FIsZero(QuadA(object, ray))) =>
        IF intersection.some
        THEN /\ IsQuadRoot(intersection.t)
             /\ FGt(intersection.t, Epsilon)
             /\ ~(FGt(OtherRoot(intersection.t), Epsilon)
                  /\ FLt(OtherRoot(intersection.t), intersection.t))
             /\ intersection.point = VAdd(ray.origin, VMul(ray.direction, intersection.t))
             /\ intersection.normal =
                   VDiv(VSub(intersection.point, object.center), object.radius)
        ELSE \/ FLt(Discriminant(object, ray), PosZero)
             \/ LET s == FSqrt(Discriminant(object, ray))
                    twoA == FMul(Rat(2), QuadA(object, ray))
                IN /\ FLe(FDiv(FSub(FNeg(QuadB(object, ray)), s), twoA), Epsilon)
                   /\ FLe(FDiv(FAdd(FNeg(QuadB(object, ray)), s), twoA), Epsilon)

\* the ray starts inside the sphere and the far root is returned
C15_Witness ==
    /\ intersection # NotCalled
    /\ intersection.some
    /\ FLt(QuadC(object, ray), PosZero)
    /\ FLt(OtherRoot(intersection.t), PosZero)
    /\ ray.direction = Vector3(<<3, 5>>, <<4, 5>>, Rat(0))

\* C16: Sphere::intersect returns no intersection whenever the discriminant
\* is not positive, the tangent case of a zero discriminant included.
C16_SphereNoHitOnZeroDiscriminant ==
    (intersection # NotCalled /\ FLe(Discriminant(object, ray), PosZero)) =>
        intersection = None

\* ------------------------------------------- Plane::intersect on a given ray
\* The planes and rays tried: planes through grid points with unit, non-unit
\* and zero normals; planes a little in front of the ray origin (t around
\* 1e-5); normals almost at a right angle to the ray (|n . d| around 1e-6).
PlaneNormals ==
    {V3(1, 0, 0), V3(-1, 0, 0), V3(0, 1, 0), V3(1, 1, 0), V3(0, 0, 0),
     Vector3(<<3, 5>>, <<4, 5>>, Rat(0))}
GridPlanes ==
    {Plane(V3(x, 0, z), n, "lambertian") :
        x \in -MaxGeom .. MaxGeom, z \in {0, 1}, n \in PlaneNormals}
NearPlanes ==
    {Plane(Vector3(x, Rat(0), Rat(0)), n, "lambertian") :
        x \in {<<1, 200000>>, <<1, 100000>>, <<1, 50000>>, <<-1, 200000>>},
        n \in {V3(1, 0, 0), V3(-1, 0, 0)}}
GrazingPlanes ==
    {Plane(c, Vector3(x, Rat(1), Rat(0)), "lambertian") :
        c \in {V3(1, 0, 0), V3(0, 1, 0)},
        x \in {<<1, 2000000>>, <<1, 1000000>>, <<-1, 2000000>>, <<-1, 500000>>}}
AxisRays == {MkRay(V3(0, 0, 0), d) : d \in {V3(1, 0, 0), V3(-1, 0, 0)}}

PlaneInit ==
    /\ depth = 0
    /\ \/ ray \in Rays /\ object \in GridPlanes
       \/ ray \in AxisRays /\ object \in NearPlanes \cup GrazingPlanes
    /\ scene_objects = <<>>
    /\ intersection = NotCalled
    /\ TraceIdle /\ RenderIdle /\ ColorIdle /\ SamplingIdle /\ ParseIdle /\ ScatterIdle /\ RandomIdle /\ SceneIdle

\* object.intersect(&ray), object a Plane
PlaneCall ==
    /\ intersection = NotCalled
    /\ intersection' = PlaneIntersect(object, ray)
    /\ UNCHANGED <<depth, ray, object, scene_objects>>
    /\ UNCHANGED <<traceVars, renderVars, colorVars, samplingVars, parseVars, scatterVars, randomVars, sceneVars>>

PlaneNext == PlaneCall

SpecPlane == PlaneInit /\ [][PlaneNext]_vars

\* (center - origin) . normal / (normal . direction)
PlaneT == FDiv(Dot(VSub(object.center, ray.origin), object.normal),
               Dot(object.normal, ray.direction))

\* C17: Plane::intersect returns None when |normal . direction| < 1e-6 or
\* when the solved t is below 1e-5; otherwise the hit with
\* t = (center - origin) . normal / (normal . direction),
\* point = origin + t * direction and the plane's normal unchanged.
C17_PlaneHit ==
    intersection # NotCalled =>
        IF \/ FLt(FAbs(Dot(object.normal, ray.direction)), ParallelEpsilon)
           \/ FLt(PlaneT, Epsilon)
        THEN intersection = None
        ELSE /\ intersection.some
             /\ intersection.t = PlaneT
             /\ intersection.point = VAdd(ray.origin, VMul(ray.direction, PlaneT))
             /\ intersection.normal = object.normal

\* a plane facing the ray (normal . direction < 0) is hit off the axes
C17_Witness ==
    /\ intersection # NotCalled
    /\ intersection.some
    /\ FLt(Dot(object.normal, ray.direction), PosZero)
    /\ ray.direction = Vector3(<<3, 5>>, <<4, 5>>, Rat(0))
    /\ ray.origin = V3(1, 0, 1)
    /\ FGt(intersection.t, Rat(1))

\* a plane less than 1e-5 in front of the origin, and a grazing ray, give None
C17_WitnessThresholds ==
    /\ intersection = None
    /\ \/ object \in NearPlanes /\ FGt(PlaneT, PosZero) /\ FLt(PlaneT, Epsilon)
       \/ object \in GrazingPlanes /\ FNe(Dot(object.normal, ray.direction), PosZero)

\* -------------------------------------------- AABB::intersect on a given ray
AabbInit ==
    /\ depth = 0
    /\ ray \in Rays
    /\ object \in Boxes
    /\ scene_objects = <<>>
    /\ intersection = NotCalled
    /\ TraceIdle /\ RenderIdle /\ ColorIdle /\ SamplingIdle /\ ParseIdle /\ ScatterIdle /\ RandomIdle /\ SceneIdle

\* object.intersect(&ray), object an AABB
AabbCall ==
    /\ intersection = NotCalled
    /\ intersection' = [called |-> TRUE, hit |-> AabbIntersect(object, ray)]
    /\ UNCHANGED <<depth, ray, object, scene_objects>>
    /\ UNCHANGED <<traceVars, renderVars, colorVars, samplingVars, parseVars, scatterVars, randomVars, sceneVars>>

AabbNext == AabbCall

SpecAabb == AabbInit /\ [][AabbNext]_vars

\* The ts for which origin[i] + t * direction[i] lies in [min[i], max[i]]
\* form the interval SlabLow .. SlabHigh when direction[i] is not 0.
SlabLow(i) ==
    FMin(FDiv(FSub(object.min[i], ray.origin[i]), ray.direction[i]),
         FDiv(FSub(object.max[i], ray.origin[i]), ray.direction[i]))
SlabHigh(i) ==
    FMax(FDiv(FSub(object.min[i], ray.origin[i]), ray.direction[i]),
         FDiv(FSub(object.max[i], ray.origin[i]), ray.direction[i]))
OriginInside == \A i \in 1 .. 3 : FLe(object.min[i], ray.origin[i]) /\ FLe(ray.origin[i], object.max[i])
\* some point origin + t * direction with t >= 0 lies in the box
RayMeetsBox ==
    /\ \A i \in 1 .. 3 :
          FEq(ray.direction[i], PosZero) =>
              FLe(object.min[i], ray.origin[i]) /\ FLe(ray.origin[i], object.max[i])
    /\ \A i, j \in 1 .. 3 :
          (FNe(ray.direction[i], PosZero) /\ FNe(ray.direction[j], PosZero)) =>
              /\ FLe(SlabLow(i), SlabHigh(j))
              /\ FGe(SlabHigh(j), PosZero)

\* C20: AABB::intersect is true whenever the origin lies inside the box
\* (bounds inclusive), and for an origin outside it is true if and only if
\* some point origin + t * direction with t >= 0 lies in the box.
C20_AabbHitsIffRayMeetsBox ==
    intersection # NotCalled =>
        /\ OriginInside => intersection.hit
        /\ ~OriginInside => (intersection.hit <=> RayMeetsBox)

\* -------------------------------------------- Mesh::intersect on a given ray
MeshInit ==
    /\ depth = 0
    /\ ray \in Rays
    /\ \E m \in Meshes :
          \/ object = m
          \/ m.vertex_positions # <<>> /\ object = ComputeAabb(m)
    /\ scene_objects = <<>>
    /\ intersection = NotCalled
    /\ TraceIdle /\ RenderIdle /\ ColorIdle /\ SamplingIdle /\ ParseIdle /\ ScatterIdle /\ RandomIdle /\ SceneIdle

\* object.intersect(&ray), object a Mesh
MeshCall ==
    /\ intersection = NotCalled
    /\ intersection' = MeshIntersect(object, ray)
    /\ UNCHANGED <<depth, ray, object, scene_objects>>
    /\ UNCHANGED <<traceVars, renderVars, colorVars, samplingVars, parseVars, scatterVars, randomVars, sceneVars>>

MeshNext == MeshCall

SpecMesh == MeshInit /\ [][MeshNext]_vars

\* the triangles whose hit is valid: alpha >= 0, beta >= 0, alpha + beta <= 1
\* and t >= 1e-5
ValidTriangles ==
    {k \in 1 .. Len(object.triangles) :
        LET s == Solve(object, ray, k)
        IN /\ FGe(s.a, PosZero) /\ FGe(s.b, PosZero)
           /\ FLe(FAdd(s.a, s.b), Rat(1)) /\ FGe(s.t, Epsilon)}

\* C18: Mesh::intersect accepts a triangle hit if and only if alpha >= 0,
\* beta >= 0, alpha + beta <= 1 and t >= 1e-5, and returns the accepted hit
\* with the minimum t over all triangles, None when there is none.
C18_MeshAcceptsValidHits ==
    (intersection # NotCalled /\ object.aabb = None) =>
        IF ValidTriangles = {} THEN intersection = None
        ELSE /\ intersection.some
             /\ \E k \in ValidTriangles : intersection.t = Solve(object, ray, k).t
             /\ \A k \in ValidTriangles : FLe(intersection.t, Solve(object, ray, k).t)

\* C19: a triangle whose determinant of [d | (b-a) | (c-a)] is zero gives no
\* intersection: a mesh of such triangles only returns None.
C19_ZeroDeterminantNoHit ==
    (intersection # NotCalled
        /\ \A k \in 1 .. Len(object.triangles) :
              FEq(Solve(object, ray, k).det_m, PosZero)) =>
        intersection = None

\* ----------------------------- Scene::get_closest_interesection on a given ray
ClosestInit ==
    /\ depth = 0
    /\ ray \in Rays
    /\ object = None
    /\ scene_objects \in ObjectLists
    /\ \A k \in 1 .. Len(scene_objects) :
          IF scene_objects[k].type = "sphere"
          THEN HasRationalRoot(Discriminant(scene_objects[k], ray))
          ELSE TRUE
    /\ intersection = NotCalled
    /\ TraceIdle /\ RenderIdle /\ ColorIdle /\ SamplingIdle /\ ParseIdle /\ ScatterIdle /\ RandomIdle /\ SceneIdle

\* scene.get_closest_interesection(&ray)
ClosestCall ==
    /\ intersection = NotCalled
    /\ intersection' = GetClosestIntersection(scene_objects, ray)
    /\ UNCHANGED <<depth, ray, object, scene_objects>>
    /\ UNCHANGED <<traceVars, renderVars, colorVars, samplingVars, parseVars, scatterVars, randomVars, sceneVars>>

ClosestNext == ClosestCall

SpecClosest == ClosestInit /\ [][ClosestNext]_vars

\* the objects of the scene that report a hit for the ray, by position
HittingObjects ==
    {k \in 1 .. Len(scene_objects) : ObjectIntersect(scene_objects[k], ray).some}
\* the t of the hit that object k reports
HitT(k) == ObjectIntersect(scene_objects[k], ray).t

\* C14: get_closest_interesection returns None if and only if no object of
\* the scene reports a hit, and otherwise a reported hit whose t is the
\* minimum of the t of all reported hits, whatever the order of the objects.
C14_ClosestIsMinimum ==
    intersection # NotCalled =>
        IF HittingObjects = {} THEN intersection = None
        ELSE /\ intersection.some
             /\ \E k \in HittingObjects : intersection.t = HitT(k)
             /\ \A k \in HittingObjects : FLe(intersection.t, HitT(k))

\* ------------------------ Material::scatter on a given ray and intersection
\* The rays, as Ray::new builds them: a unit direction, or the zero vector.
ScatterRays ==
    {MkRay(V3(0, 0, 0), d) :
        d \in {V3(0, 0, 0), V3(0, -1, 0), V3(0, 1, 0), V3(1, 0, 0),
               Vector3(<<3, 5>>, <<-4, 5>>, Rat(0)), Vector3(<<4, 5>>, <<3, 5>>, Rat(0))}}
ScatterInfos ==
    {Some(point, normal, "material", Rat(1)) :
        point \in {V3(0, 0, 0), V3(1, 0, 1)},
        normal \in {V3(0, 0, 0), V3(0, 1, 0), V3(0, -1, 0), V3(1, 0, 0)}}
ScatterColors == {Color(Rat(1), <<1, 2>>, Rat(0)), Color(Rat(4), Rat(4), Rat(2))}
Materials ==
    {LambertianMaterial(c) : c \in ScatterColors}
    \cup {EmissiveMaterial(c) : c \in ScatterColors}
    \cup {DielectricsMaterial(c, i) :
            c \in ScatterColors, i \in {<<1, 2>>, Rat(1), <<4, 3>>, <<3, 4>>, <<4, 5>>}}
    \cup {MetalMaterial(c, f) : c \in ScatterColors, f \in {Rat(0), <<1, 2>>, Rat(1)}}
\* what the random number generator can give: a unit vector, a vector inside
\* the unit sphere and a number of [0, 1)
ScatterDraws ==
    {[unit |-> u, v |-> w, gen |-> g] :
        u \in {V3(0, 1, 0), V3(0, -1, 0), V3(1, 0, 0)},
        w \in {V3(0, 0, 0), Vector3(<<1, 2>>, Rat(0), Rat(0)),
               Vector3(Rat(0), <<-1, 2>>, Rat(0)), Vector3(Rat(0), <<3, 4>>, Rat(0))},
        g \in {Rat(0), <<1, 100>>, <<1, 2>>, <<99, 100>>}}

\* the square roots that reach the result of the call are of squares of
\* rationals
RootsAreRational(self, r, info, d) ==
    IF self.type = "Lambertian"
    THEN HasRationalRoot(SqrLen(VAdd(info.normal, d.unit)))
    ELSE IF self.type = "Metal"
    THEN HasRationalRoot(SqrLen(VAdd(Reflect(Unit(r.direction), info.normal),
                                     VMul(d.v, self.fuzziness))))
    ELSE IF self.type = "Dieletrics"
    THEN IF ~HasRationalRoot(SinThetaSquared(r, info)) THEN FALSE
         ELSE IF Reflects(self, r, info, d.gen)
         THEN HasRationalRoot(SqrLen(Reflect(r.direction, FaceNormal(r, info))))
         ELSE IF ~HasRationalRoot(FAbs(FSub(Rat(1),
                     SqrLen(VMul(VAdd(r.direction, VMul(FaceNormal(r, info), CosTheta(r, info))),
                                 RefractionRatio(self, r, info))))))
         THEN FALSE
         ELSE HasRationalRoot(SqrLen(Refract(r.direction, FaceNormal(r, info),
                                             RefractionRatio(self, r, info))))
    ELSE TRUE

ScatterInit ==
    /\ depth = 0
    /\ ray \in ScatterRays
    /\ intersection \in ScatterInfos
    /\ self_material \in Materials
    /\ rng \in ScatterDraws
    /\ RootsAreRational(self_material, ray, intersection, rng)
    /\ object = NotCalled /\ scene_objects = <<>>
    /\ scattered = NotCalled
    /\ TraceIdle /\ RenderIdle /\ ColorIdle /\ SamplingIdle /\ ParseIdle /\ RandomIdle /\ SceneIdle

\* intersection_info.material.scatter(self, intersection_info)
ScatterCall ==
    /\ scattered = NotCalled
    /\ scattered' = MaterialScatter(self_material, ray, intersection, rng)
    /\ UNCHANGED <<depth, self_material, rng, geomVars>>
    /\ UNCHANGED <<traceVars, renderVars, colorVars, samplingVars, parseVars, randomVars, sceneVars>>

ScatterNext == ScatterCall

SpecScatter == ScatterInit /\ [][ScatterNext]_vars

ScatterReturned(type) == scattered # NotCalled /\ self_material.type = type

\* C21: Emissive scatter returns Some((None, color)) with color the
\* self_material's own colour, for every incoming ray and every intersection.
C21_EmissiveReturnsOwnColour ==
    ScatterReturned("Emissive") =>
        /\ scattered.some
        /\ ~scattered.ray.some
        /\ scattered.color = self_material.color

C21_Witness ==
    /\ ScatterReturned("Emissive")
    /\ self_material.color = Color(Rat(4), Rat(4), Rat(2))
    /\ ray.direction = Vector3(<<3, 5>>, <<-4, 5>>, Rat(0))
    /\ intersection.normal = V3(0, 1, 0)
    /\ scattered.color = Color(Rat(4), Rat(4), Rat(2))

\* d - 2(d.n)n for the incoming direction d and the normal n of the hit
Specular ==
    VSub(ray.direction,
         VMul(intersection.normal, FMul(Rat(2), Dot(ray.direction, intersection.normal))))

C23_MetalScatterOnZeroNormal ==
    (/\ ScatterReturned("Metal")
     /\ self_material.fuzziness = <<1, 2>>
     /\ ray.direction = V3(0, 0, 0)
     /\ intersection.normal = V3(0, 0, 0)) =>
        /\ scattered.some /\ scattered.ray.some
        /\ scattered.color = self_material.albedo

\* C24: Dielectric scatter always returns Some((Some(scattered), tint)); the
\* scattered direction is the reflection of the incoming direction about the
\* face-oriented normal when refraction_ratio * sin(theta) > 1 or the rng is
\* below the Schlick reflectance, and the refracted direction otherwise.
C24_DielectricScatter ==
    ScatterReturned("Dieletrics") =>
        LET n == FaceNormal(ray, intersection)
            ratio == RefractionRatio(self_material, ray, intersection)
            total == FGt(FMul(ratio, SinTheta(ray, intersection)), Rat(1))
            below == FLt(rng.gen, Reflectance(CosTheta(ray, intersection), ratio))
        IN /\ scattered.some /\ scattered.ray.some
           /\ scattered.color = self_material.tint
           /\ scattered.ray.ray.origin = intersection.point
           /\ scattered.ray.ray.direction =
                 IF total \/ below
                 THEN Unit(VSub(ray.direction,
                                VMul(n, FMul(Rat(2), Dot(ray.direction, n)))))
                 ELSE Unit(Refract(ray.direction, n, ratio))

\* a head-on ray on glass of index 1/2: reflectance 1/9, reflected for the
\* rng 1/100
C24_Witness ==
    /\ ScatterReturned("Dieletrics")
    /\ self_material.refraction_index = <<1, 2>>
    /\ ray.direction = V3(0, -1, 0)
    /\ intersection.normal = V3(0, 1, 0)
    /\ rng.gen = <<1, 100>>
    /\ ~CannotRefract(self_material, ray, intersection)
    /\ scattered.ray.ray.direction = V3(0, 1, 0)

\* a slanted ray on glass of index 3/4: reflectance below 99/100, refracted
C24_WitnessRefracted ==
    /\ ScatterReturned("Dieletrics")
    /\ self_material.refraction_index = <<3, 4>>
    /\ ray.direction = Vector3(<<3, 5>>, <<-4, 5>>, Rat(0))
    /\ intersection.normal = V3(0, 1, 0)
    /\ rng.gen = <<99, 100>>
    /\ scattered.ray.ray.direction = Vector3(<<4, 5>>, <<-3, 5>>, Rat(0))

\* a slanted ray on glass of index 1/2: refraction_ratio * sin(theta) = 6/5,
\* reflected whatever the draw
C24_WitnessTotalReflection ==
    /\ ScatterReturned("Dieletrics")
    /\ self_material.refraction_index = <<1, 2>>
    /\ ray.direction = Vector3(<<3, 5>>, <<-4, 5>>, Rat(0))
    /\ intersection.normal = V3(0, 1, 0)
    /\ rng.gen = <<99, 100>>
    /\ scattered.ray.ray.direction = Vector3(<<3, 5>>, <<4, 5>>, Rat(0))

\* ------------------------------------------------ Vector3::random_unit_vector
\* Vector3::random(-1.0, 1.0): each coordinate a number of [-1, 1], here a
\* multiple of 1 / RandomSteps; a vector inside the unit sphere has a rational
\* length
RandomCoords == {Norm(k, RandomSteps) : k \in -RandomSteps .. RandomSteps}
RandomVectors ==
    {w \in {Vector3(x, y, z) : x \in RandomCoords, y \in RandomCoords, z \in RandomCoords} :
        IF FLt(SqrLen(w), Rat(1)) THEN HasRationalRoot(SqrLen(w)) ELSE TRUE}

\* v.sqr_len() < 1.0
InUnitSphere(w) == FLt(SqrLen(w), Rat(1))
\* the draws that end the loop and the draws that repeat it
InsideDraws == {w \in RandomVectors : InUnitSphere(w)}
OutsideDraws == {w \in RandomVectors : ~InUnitSphere(w)}

RandomInit ==
    /\ depth = 0
    /\ random_pc = "loop"
    /\ random_v = <<>>
    /\ unit_vector = <<>>
    /\ TraceIdle /\ RenderIdle /\ ColorIdle /\ SamplingIdle /\ ParseIdle /\ SceneIdle
    /\ GeomIdle /\ ScatterIdle

\* one pass of the loop of random_in_unit_sphere that draws a v outside
RandomRejected ==
    /\ random_pc = "loop"
    /\ \E w \in OutsideDraws : random_v' = w
    /\ UNCHANGED <<depth, random_pc, unit_vector>>
    /\ UNCHANGED <<traceVars, renderVars, colorVars, samplingVars, parseVars, sceneVars>>
    /\ UNCHANGED <<geomVars, scatterVars>>

\* the pass that draws a v inside: random_in_unit_sphere returns v, and
\* random_unit_vector returns v.normalized()
RandomAccepted ==
    /\ random_pc = "loop"
    /\ \E w \in InsideDraws :
          /\ random_v' = w
          /\ unit_vector' = Unit(w)
    /\ random_pc' = "done"
    /\ UNCHANGED depth
    /\ UNCHANGED <<traceVars, renderVars, colorVars, samplingVars, parseVars, sceneVars>>
    /\ UNCHANGED <<geomVars, scatterVars>>

RandomNext == RandomRejected \/ RandomAccepted

SpecRandom == RandomInit /\ [][RandomNext]_vars
\* the step of RandomAccepted, by what it does to the position in the loop
RandomExit == random_pc = "loop" /\ random_pc' = "done"
\* every draw lands inside the sphere with the same positive probability:
\* the accepting pass is taken eventually
SpecRandomFair == SpecRandom /\ WF_random_pc(RandomExit)

\* the rejection loop exits, and only on a candidate with squared length < 1
C25_Terminates == <>(random_pc = "done")
C25_ReturnsCandidateInside ==
    random_pc = "done" => FLt(SqrLen(random_v), Rat(1))

\* C25: random unit-vector generation terminates almost surely, and every
\* vector it returns has length in (0, 1].
C25_UnitVectorLength ==
    random_pc = "done" =>
        /\ FGt(VLen(unit_vector), PosZero)
        /\ FLe(VLen(unit_vector), Rat(1))

C25_NonZeroDrawHasLengthOne ==
    (random_pc = "done" /\ random_v # V3(0, 0, 0)) => VLen(unit_vector) = Rat(1)

\* --------------------------------------------- Scene::precompute, applied to
\* given scenes
\* The lights under `lights:` of the scene files tried, as deserialized
LightPool ==
    {Light(<<>>, Color(Rat(1), Rat(1), Rat(1)), PointLight(V3(x, 2, 0))) : x \in {0, MaxGeom}}
    \cup {Light(<<>>, Color(Rat(1), <<1, 2>>, Rat(0)),
                AreaLight(V3(0, 2, 0), V3(1, 0, 0), V3(0, 0, 1), n, b)) :
              n \in 0 .. 2, b \in {TRUE}}
    \cup {Light(<<>>, Color(Rat(1), <<1, 2>>, Rat(0)),
                AreaLight(V3(0, 2, 0), V3(1, 0, 0), V3(0, 0, 1), 1, FALSE))}
LightLists == UNION {[1 .. n -> LightPool] : n \in 0 .. MaxLights}
\* The objects tried: those of SceneObjectPool, a lambertian sphere and a
\* mesh of two lamp triangles
PrecomputeObjectPool ==
    SceneObjectPool
    \cup {Sphere(V3(0, 0, 0), Rat(1), "lambertian"),
          [MeshOf(<<<<V3(1, -1, 0), V3(1, 1, 0), V3(2, 0, 0)>>,
                    <<V3(2, -1, -1), V3(2, 1, 0), V3(2, -1, 1)>>>>)
              EXCEPT !.materials = <<"lamp", "lamp">>]}
PrecomputeObjectLists == UNION {[1 .. n -> PrecomputeObjectPool] : n \in 0 .. MaxObjects}

PrecomputeInit ==
    /\ depth = 0
    /\ lights \in LightLists
    /\ scene_objects \in PrecomputeObjectLists
    /\ scene_pc = "deserialized"
    /\ ray = NotCalled /\ object = NotCalled /\ intersection = NotCalled
    /\ TraceIdle /\ RenderIdle /\ ColorIdle /\ SamplingIdle /\ ParseIdle
    /\ ScatterIdle /\ RandomIdle

\* scene_config.scene.precompute()
PrecomputeCall ==
    /\ scene_pc = "deserialized"
    /\ \E gens \in LightGens(lights) : lights' = PrecomputeLights(lights, gens)
    /\ scene_objects' = PrecomputeObjects(scene_objects)
    /\ scene_pc' = "precomputed"
    /\ UNCHANGED <<depth, ray, object, intersection>>
    /\ UNCHANGED <<traceVars, renderVars, colorVars, samplingVars, parseVars>>
    /\ UNCHANGED <<scatterVars, randomVars>>

PrecomputeNext == PrecomputeCall

SpecPrecompute == PrecomputeInit /\ [][PrecomputeNext]_vars

\* the object carries an Emissive material: its own, or for a mesh that of
\* one of its triangles
IsEmissive(o) ==
    IF o.type = "mesh"
    THEN \E k \in 1 .. Len(o.triangles) :
            MaterialOf(o.materials[o.triangles[k].material_idx + 1]) = "Emissive"
    ELSE MaterialOf(o.material) = "Emissive"
\* the centroid (a + b + c) / 3 of triangle k of the mesh
Centroid(o, k) ==
    VDiv(VAdd(VAdd(Corner(o, k, 1), Corner(o, k, 2)), Corner(o, k, 3)), Rat(3))
\* the sample points claimed for the light of an emissive object
EmissiveSamplePoints(o) ==
    IF o.type = "mesh" THEN [k \in 1 .. Len(o.triangles) |-> Centroid(o, k)]
    ELSE <<o.center>>
EmissiveObjects == {k \in 1 .. Len(scene_objects) : IsEmissive(scene_objects[k])}

\* C26: once Scene::precompute has run, the light list is derived from the
\* objects: it holds one light for every object with an Emissive material,
\* whose sample points are the centre of the sphere or plane, or the centroids
\* of the triangles of the mesh, and no light for any other object.
C26_LightsDerivedFromEmissiveObjects ==
    scene_pc = "precomputed" =>
        /\ Len(lights) = Cardinality(EmissiveObjects)
        /\ \A k \in EmissiveObjects :
              \E j \in 1 .. Len(lights) :
                  lights[j].samples = EmissiveSamplePoints(scene_objects[k])

\* what the code does instead: the lights are those of the scene file, each
\* with the samples of its own light_info, whatever the objects are
C26_LightsAreTheConfiguredOnes ==
    [][scene_pc = "deserialized" /\ scene_pc' = "precomputed" =>
          /\ Len(lights') = Len(lights)
          /\ \A k \in 1 .. Len(lights) :
                /\ lights'[k].light_info = lights[k].light_info
                /\ lights'[k].color = lights[k].color
                /\ lights[k].light_info.type = "Point" =>
                      lights'[k].samples = <<lights[k].light_info.position>>
                /\ lights[k].light_info.type = "Area" =>
                      Len(lights'[k].samples) =
                          lights[k].light_info.grid_resolution * lights[k].light_info.grid_resolution]_vars

\* ------------------------------------------- direct-light sampling (C27)
\* the call f has cast no shadow ray and its light_color is black
NoLightSampled(f) == ~f.sampled /\ f.shadowCast = 0 /\ f.light_color = Black
\* C27: direct-light sampling is gated: a call of Ray::trace casts shadow rays
\* only when its current_depth equals max_depth - 1 and the scene's light list
\* is not empty; in every other call, and in every scene without lights, no
\* shadow ray is cast and the light contribution is black, whatever is drawn.
C27_LightSamplingGated ==
    /\ \A k \in 1 .. Len(stack) :
          (stack[k].cd # stack[k].md - 1 \/ nLights = 0) => NoLightSampled(stack[k])
    /\ HasReturned =>
          ((lastRet.cd # lastRet.md - 1 \/ nLights = 0) => NoLightSampled(lastRet))

\* a primary-path call at max_depth - 1 that sampled the lights and got light
\* from them, in a render in which a call at another depth has a continuation
C27_Witness ==
    /\ HasReturned
    /\ lastRet.kind # "shadow"
    /\ lastRet.sampled
    /\ lastRet.cd = lastRet.md - 1
    /\ lastRet.light_color # Black
    /\ depth > 1

\* a call above max_depth - 1 passes the gate with lights in the scene and
\* the highest draw, and casts nothing
C27_WitnessClosed ==
    /\ HasReturned
    /\ nLights > 0
    /\ lastRet.scat = "cont"
    /\ lastRet.cd < lastRet.md - 1
    /\ ~lastRet.sampled

\* --------------------------------------------- the two phases of a render (C28)
\* a worker has traced a primary ray
SomeRayTraced == \E k \in DOMAIN traced : traced[k].times > 0
\* the render phase: from the end of Scene::precompute to the outer collect
InRenderPhase == phase = "render"
EveryMeshHasAabb ==
    \A k \in 1 .. Len(scene_objects) :
        scene_objects[k].type = "mesh" => scene_objects[k].aabb # None

\* C28: Scene::precompute completes before the first primary ray is traced,
\* every Mesh of the scene has aabb = Some(..) during the whole render phase,
\* and no step taken between the end of precompute and the end of the render
\* (a worker's sample, pixel or row, or the final collect) changes an object,
\* a light or an AABB.
C28_TwoPhaseLifecycle ==
    /\ [](SomeRayTraced => scene_pc = "precomputed")
    /\ [](InRenderPhase => scene_pc = "precomputed" /\ EveryMeshHasAabb)
    /\ [][InRenderPhase => scene_objects' = scene_objects /\ lights' = lights]_vars

\* a worker has traced a ray of a scene with a mesh and two lights, whose
\* AABB and samples precompute has filled, and the render is still running
C28_Witness ==
    /\ InRenderPhase
    /\ SomeRayTraced
    /\ \E k \in DOMAIN traced : traced[k].times = 0
    /\ \E k \in 1 .. Len(scene_objects) :
          scene_objects[k].type = "mesh" /\ scene_objects[k].aabb # None
    /\ Len(lights) = 2
    /\ lights[2].samples # <<>>

\* ------------------------------------------------ the AABB pre-filter (C29)
\* C29: the AABB pre-filter never changes the answer of a mesh query: for a
\* mesh whose aabb is the box that compute_aabb stores, Mesh::intersect
\* returns what it returns for the same mesh with aabb = None.
C29_AabbNeverChangesResult ==
    (intersection # NotCalled /\ object.aabb # None) =>
        intersection = MeshIntersect([object EXCEPT !.aabb = None], ray)


\* no triangle of the mesh has a zero determinant for the ray (C19's case)
NoZeroDeterminant ==
    \A k \in 1 .. Len(object.triangles) : ~FEq(Solve(object, ray, k).det_m, PosZero)

\* away from zero determinants the pre-filter changes nothing
C29_AabbNeverChangesResultNonZeroDet ==
    (intersection # NotCalled /\ object.aabb # None /\ NoZeroDeterminant) =>
        intersection = MeshIntersect([object EXCEPT !.aabb = None], ray)

\* a hit through the box, the same with and without it
C29_WitnessNonZeroDet ==
    /\ intersection # NotCalled /\ object.aabb # None /\ NoZeroDeterminant
    /\ intersection.some

\* ------------------------- the depth arguments of Ray::trace, for every u8
\* u8::MAX, the largest `depth` compute_image can be given
U8Max == 255
\* the materials whose scatter gives a continuation ray
ContinuingMaterials == {m \in {MaterialOf(o) : o \in Objects} : m # "Emissive"}

\* One active call of Ray::trace, by its depth arguments alone: li is the
\* light whose shadow ray the call waits for, next the current_depth + 1 it
\* handed to its continuation ray (0 before that)
DepthFrame(kind, cd, md) ==
    [kind |-> kind, cd |-> cd, md |-> md, pc |-> "entry", li |-> 0, next |-> 0]

\* ray.trace(&scene_config, 0, depth) of compute_image
DepthInit ==
    /\ depth \in 0 .. U8Max
    /\ nLights \in 0 .. MaxLights
    /\ stack = <<DepthFrame("primary", 0, depth)>>
    /\ shadowRays = 0
    /\ background = Black /\ lastRet = NoRet /\ result = NoColor
    /\ RenderIdle /\ ColorIdle /\ SamplingIdle /\ ParseIdle /\ GeomIdle
    /\ ScatterIdle /\ RandomIdle /\ SceneIdle

\* the stack once the innermost call has returned to its caller
DepthPopped ==
    IF Len(stack) = 1 THEN <<>>
    ELSE SubSeq(stack, 1, Len(stack) - 2) \o
         <<[stack[Len(stack) - 1] EXCEPT
               !.pc = IF stack[Len(stack) - 1].pc = "wait_scatter" THEN "gate"
                      ELSE "light_ret"]>>
\* the stack once the innermost call, at the light l, has called
\* shadow_ray.trace(scene_config, 0, 1)
DepthShadowCast(l) ==
    SubSeq(stack, 1, Len(stack) - 1) \o
    <<[Top EXCEPT !.pc = "wait_light", !.li = l], DepthFrame("shadow", 0, 1)>>

\* a return without a further call: current_depth == max_depth, no
\* intersection, or a scatter without a continuation ray
DepthReturn ==
    /\ stack # <<>>
    /\ Top.pc = "entry"
    /\ stack' = DepthPopped
    /\ UNCHANGED <<depth, nLights, background, lastRet, result, shadowRays>>
    /\ UNCHANGED <<renderVars, colorVars, samplingVars, parseVars, geomVars>>
    /\ UNCHANGED <<scatterVars, randomVars, sceneVars>>

\* scatter.trace(scene_config, current_depth + 1, max_depth)
DepthScatter ==
    /\ stack # <<>>
    /\ Top.pc = "entry"
    /\ ~Exhausted(Top.cd, Top.md)
    /\ stack' = SubSeq(stack, 1, Len(stack) - 1) \o
                <<[Top EXCEPT !.pc = "wait_scatter", !.next = ContinuationDepth(Top.cd)],
                  DepthFrame("scattered", ContinuationDepth(Top.cd), Top.md)>>
    /\ UNCHANGED <<depth, nLights, background, lastRet, result, shadowRays>>
    /\ UNCHANGED <<renderVars, colorVars, samplingVars, parseVars, geomVars>>
    /\ UNCHANGED <<scatterVars, randomVars, sceneVars>>

\* the gate of the direct-light sampling, and the first shadow ray or the
\* return
DepthGate ==
    /\ stack # <<>>
    /\ Top.pc = "gate"
    /\ \E draw \in Draws, m \in ContinuingMaterials :
         IF GateOpen(nLights, m, draw, Top.cd, Top.md)
         THEN /\ shadowRays < MaxShadowRays
              /\ shadowRays' = shadowRays + 1
              /\ stack' = DepthShadowCast(1)
         ELSE /\ stack' = DepthPopped
              /\ UNCHANGED shadowRays
    /\ UNCHANGED <<depth, nLights, background, lastRet, result>>
    /\ UNCHANGED <<renderVars, colorVars, samplingVars, parseVars, geomVars>>
    /\ UNCHANGED <<scatterVars, randomVars, sceneVars>>

\* a shadow ray has returned: the next light, or the return
DepthLight ==
    /\ stack # <<>>
    /\ Top.pc = "light_ret"
    /\ IF Top.li < nLights
       THEN /\ shadowRays < MaxShadowRays
            /\ shadowRays' = shadowRays + 1
            /\ stack' = DepthShadowCast(Top.li + 1)
       ELSE /\ stack' = DepthPopped
            /\ UNCHANGED shadowRays
    /\ UNCHANGED <<depth, nLights, background, lastRet, result>>
    /\ UNCHANGED <<renderVars, colorVars, samplingVars, parseVars, geomVars>>
    /\ UNCHANGED <<scatterVars, randomVars, sceneVars>>

DepthNext ==
    \/ DepthReturn
    \/ DepthScatter
    \/ DepthGate
    \/ DepthLight

SpecDepth == DepthInit /\ [][DepthNext]_vars

\* C30: in every call of Ray::trace reachable from compute_image, for every
\* depth argument in 0 ..= 255, 0 <= current_depth <= max_depth; so the
\* current_depth + 1 handed to a continuation ray has not wrapped around, and
\* a call that reaches the test against max_depth - 1 has max_depth >= 1.
C30_DepthWithinBounds ==
    \A k \in 1 .. Len(stack) :
        /\ 0 <= stack[k].cd /\ stack[k].cd <= stack[k].md
        /\ stack[k].pc # "entry" =>
              /\ stack[k].next = stack[k].cd + 1
              /\ stack[k].md >= 1

\* the render with depth 255 has gone all the way down: the call with
\* current_depth = 254 has computed 255 for its continuation ray
C30_Witness ==
    /\ depth = U8Max
    /\ Len(stack) = U8Max + 1
    /\ Top.cd = U8Max
    /\ stack[U8Max].next = U8Max

\* a call with max_depth = 1 has reached the gate that evaluates max_depth - 1
C30_WitnessGate ==
    /\ stack # <<>>
    /\ Top.pc = "gate"
    /\ Top.md = 1

====
